---------------------------- MODULE Spec2Model ----------------------------
(***************************************************************************)
(* Neo4j-GO: a REST client for the Neo4j graph database (src/neo4j.go).    *)
(*                                                                         *)
(* The client object carries two mutable fields, Method and StatusCode,    *)
(* that every endpoint operation writes and reads around its HTTP          *)
(* requests.  The model runs the endpoint operations of src/neo4j.go       *)
(* instruction by instruction against a server that may answer every       *)
(* request in any way (transport failure, any status, any body).           *)
(*                                                                         *)
(* Go strings are sequences of tokens.  A token is "/", a decimal digit,   *)
(* a blank, or a word that contains none of these, so that strings.Split   *)
(* on "/", strconv.ParseUint and strings.TrimSpace are computed as the     *)
(* library computes them.                                                  *)
(***************************************************************************)
EXTENDS Integers, Sequences, FiniteSets, TLC

VARIABLES
    mode,     \* how the sessions use the clients: "seq", "shared", "own", "serial",
              \* or "store": one session against a server that keeps its nodes,
              \* or "decode": the decoder alone, on one response body,
              \* or "new": the constructor alone, a client per session,
              \* or "escape": EscapeString alone, on one string,
              \* or "node": unmarshalNode alone, on one JSON object,
              \* or "send": send alone, on a client with any Method
    client,   \* client[c]: the Neo4j struct of client c, with who wrote its fields
    sess,     \* sess[s]: the call session (goroutine) s is running
    hist,     \* hist[s]: what s has written to a client shared without synchronization
    server    \* the nodes the server keeps, each with its properties ("store" only)

vars == <<mode, client, sess, hist, server>>

----------------------------------------------------------------------------
(* Bounds of the model *)

NumSessions == 2      \* concurrent sessions (goroutines)
MaxIds == 2           \* identifiers handed to DelRelationship
MaxKeys == 2          \* keys of the data map handed to SetProperty / CreateProperty
MaxNodes == 2         \* nodes the server keeps
MaxElems == 2         \* elements of a JSON array handed to the decoder
MaxChars == 2         \* characters of a string handed to EscapeString
MaxFields == 2        \* keys of a JSON object handed to unmarshalNode

Sessions == 1..NumSessions
Clients == 1..NumSessions

----------------------------------------------------------------------------
(* Go strings *)

Digits == <<"0", "1", "2", "3", "4", "5", "6", "7", "8", "9">>

IsDigit(t) == \E i \in 1..10 : Digits[i] = t

DigitVal(t) == (CHOOSE i \in 1..10 : Digits[i] = t) - 1

\* strconv.FormatUint(n, 10)
RECURSIVE FormatUint(_)
FormatUint(n) ==
    IF n < 10 THEN <<Digits[n + 1]>>
    ELSE FormatUint(n \div 10) \o <<Digits[(n % 10) + 1]>>

\* the segment after the last "/" : selfSlice[len(selfSlice)-1] of strings.Split(s, "/")
RECURSIVE LastSegment(_)
LastSegment(s) ==
    IF s = <<>> THEN <<>>
    ELSE IF s[Len(s)] = "/" THEN <<>>
    ELSE LastSegment(SubSeq(s, 1, Len(s) - 1)) \o <<s[Len(s)]>>

RECURSIVE DecimalValue(_)
DecimalValue(seg) ==
    IF seg = <<>> THEN 0
    ELSE 10 * DecimalValue(SubSeq(seg, 1, Len(seg) - 1)) + DigitVal(seg[Len(seg)])

\* a parse that yields 0 for a segment that is no number
ParseUintOrZero(seg) ==
    IF seg # <<>> /\ (\A i \in 1..Len(seg) : IsDigit(seg[i]))
    THEN [ok |-> TRUE, val |-> DecimalValue(seg)]
    ELSE [ok |-> TRUE, val |-> 0]

\* strconv.ParseUint(seg, 10, 0): digits only, no sign, not empty.  (The range
\* error past 64 bits needs a segment of 20 digits; the bodies of the model
\* hold shorter ones.)
ParseUint(seg) ==
    IF seg # <<>> /\ (\A i \in 1..Len(seg) : IsDigit(seg[i]))
    THEN [ok |-> TRUE, val |-> DecimalValue(seg)]
    ELSE [ok |-> FALSE, val |-> 0]

IsSpace(t) == t \in {" ", "\t", "\n"}

\* strings.TrimSpace
RECURSIVE TrimSpace(_)
TrimSpace(s) ==
    IF s = <<>> THEN <<>>
    ELSE IF IsSpace(s[1]) THEN TrimSpace(Tail(s))
    ELSE IF IsSpace(s[Len(s)]) THEN TrimSpace(SubSeq(s, 1, Len(s) - 1))
    ELSE s

\* strings.ToLower on the words the library compares (verbs, return types)
ToLower(w) ==
    CASE w = "GET" -> "get"
      [] w = "Get" -> "get"
      [] w = "POST" -> "post"
      [] w = "Post" -> "post"
      [] w = "PUT" -> "put"
      [] w = "Put" -> "put"
      [] w = "HEAD" -> "head"
      [] w = "DELETE" -> "delete"
      [] w = "Delete" -> "delete"
      [] w = "Node" -> "node"
      [] w = "Relationship" -> "relationship"
      [] w = "Path" -> "path"
      [] w = "FullPath" -> "fullpath"
      [] w = "IN" -> "in"
      [] w = "OUT" -> "out"
      [] w = "ALL" -> "all"
      [] OTHER -> w

----------------------------------------------------------------------------
(* JSON texts: request data and response bodies.                            *)
(* A text is a JSON value [k |-> kind, ...], the empty text, or text that   *)
(* is no JSON at all.                                                       *)

JEmpty == [k |-> "empty"]                 \* "" (no data; an empty response body)
JBad == [k |-> "bad"]                     \* text that is not JSON
JNull == [k |-> "null"]
JNum == [k |-> "num"]
JBool == [k |-> "bool"]
JStr(s) == [k |-> "str", s |-> s]
JObj(m) == [k |-> "obj", m |-> m]         \* m: function from keys to JSON values
JArr(a) == [k |-> "arr", a |-> a]         \* a: sequence of JSON values

IsJSON(text) == text.k \notin {"empty", "bad"}

\* strconv.Quote(s): the text of s as a double-quoted literal
Quote(s) == JStr(s)

\* json.Marshal of a map[string]string
StrMap(data) == [key \in DOMAIN data |-> JStr(data[key])]

Marshal(data) == JObj(StrMap(data))

Nil == [nil |-> TRUE]

----------------------------------------------------------------------------
(* The generic record decoder *)

\* new(NeoTemplate): every field at its zero value
ZeroTemplate ==
    [ID |-> 0, Self |-> <<>>, Traverse |-> <<>>, Property |-> <<>>,
     Properties |-> <<>>, RelationshipsOut |-> <<>>, RelationshipsIn |-> <<>>,
     RelationshipsAll |-> <<>>, RelationshipsCreate |-> <<>>,
     Start |-> <<>>, End |-> <<>>, Type |-> <<>>, Length |-> <<>>,
     Indexed |-> <<>>, Data |-> Nil, Extensions |-> Nil, Nodes |-> Nil,
     TRelationships |-> Nil]

\* the string stored from key, "" when the key is absent or holds no string
StrField(obj, key) ==
    IF key \in DOMAIN obj /\ obj[key].k = "str" THEN obj[key].s ELSE <<>>

\* a decoder that stores no object and no array
NoField(obj, key, kind) == Nil

\* the value stored from key when it is of the given kind, nil otherwise
KindField(obj, key, kind) ==
    IF key \in DOMAIN obj /\ obj[key].k = kind THEN obj[key] ELSE Nil

\* unmarshalNode(template): [err, node]
unmarshalNode(obj) ==
    LET self == StrField(obj, <<"self">>)
        id == ParseUint(LastSegment(self))
    IN  IF <<"self">> \in DOMAIN obj /\ obj[<<"self">>].k = "str" /\ ~id.ok
        THEN [err |-> "strconv.ParseUint: invalid syntax", node |-> Nil]
        ELSE [err |-> "nil",
              node |->
                [ID |-> id.val,
                 Self |-> self,
                 Traverse |-> StrField(obj, <<"traverse">>),
                 Property |-> StrField(obj, <<"property">>),
                 Properties |-> StrField(obj, <<"properties">>),
                 RelationshipsOut |-> StrField(obj, <<"outgoing_relationships">>),
                 RelationshipsIn |-> StrField(obj, <<"incoming_relationships">>),
                 RelationshipsAll |-> StrField(obj, <<"all_relationships">>),
                 RelationshipsCreate |-> StrField(obj, <<"create_relationship">>),
                 Start |-> StrField(obj, <<"start">>),
                 End |-> StrField(obj, <<"end">>),
                 Type |-> StrField(obj, <<"type">>),
                 Length |-> StrField(obj, <<"length">>),
                 Indexed |-> StrField(obj, <<"indexed">>),
                 Data |-> KindField(obj, <<"data">>, "obj"),
                 Extensions |-> KindField(obj, <<"extensions">>, "obj"),
                 Nodes |-> KindField(obj, <<"nodes">>, "arr"),
                 TRelationships |-> KindField(obj, <<"relationships">>, "arr")]]

\* the keys copied into a string field of the record, each with its field
StringKeys ==
    {<<<<"traverse">>, "Traverse">>, <<<<"property">>, "Property">>,
     <<<<"properties">>, "Properties">>,
     <<<<"outgoing_relationships">>, "RelationshipsOut">>,
     <<<<"incoming_relationships">>, "RelationshipsIn">>,
     <<<<"all_relationships">>, "RelationshipsAll">>,
     <<<<"create_relationship">>, "RelationshipsCreate">>,
     <<<<"start">>, "Start">>, <<<<"end">>, "End">>, <<<<"type">>, "Type">>,
     <<<<"length">>, "Length">>, <<<<"indexed">>, "Indexed">>}

\* a loop body that looks at the key alone, never at the type of the value
visitUntyped(node, k, v) ==
    CASE k = <<"data">> -> [node EXCEPT !.Data = v]
      [] k = <<"extensions">> -> [node EXCEPT !.Extensions = v]
      [] k = <<"nodes">> -> [node EXCEPT !.Nodes = v]
      [] k = <<"relationships">> -> [node EXCEPT !.TRelationships = v]
      [] OTHER -> node

\* the body of the loop of unmarshalNode on one pair k, v, when it does not
\* return
visit(node, k, v) ==
    CASE v.k = "obj" ->
            CASE k = <<"data">> -> [node EXCEPT !.Data = v]
              [] k = <<"extensions">> -> [node EXCEPT !.Extensions = v]
              [] OTHER -> node
      [] v.k = "arr" ->
            CASE k = <<"nodes">> -> [node EXCEPT !.Nodes = v]
              [] k = <<"relationships">> -> [node EXCEPT !.TRelationships = v]
              [] OTHER -> node
      [] v.k = "str" ->
            IF k = <<"self">>
            THEN [node EXCEPT !.Self = v.s, !.ID = ParseUint(LastSegment(v.s)).val]
            ELSE IF \E e \in StringKeys : e[1] = k
            THEN [node EXCEPT ![(CHOOSE e \in StringKeys : e[1] = k)[2]] = v.s]
            ELSE node
      [] OTHER -> node

\* the pair on which the loop returns atouiErr
ReturnsErr(k, v) ==
    k = <<"self">> /\ v.k = "str" /\ ~ParseUint(LastSegment(v.s)).ok

\* for k, v := range template, the keys visited in the given order
RECURSIVE unmarshalNodeRange(_, _, _)
unmarshalNodeRange(template, order, node) ==
    IF order = <<>> THEN [err |-> "nil", node |-> node]
    ELSE LET k == order[1]
         IN  IF ReturnsErr(k, template[k])
             THEN [err |-> "strconv.ParseUint: invalid syntax", node |-> Nil]
             ELSE unmarshalNodeRange(template, Tail(order),
                                     visit(node, k, template[k]))

\* the orders in which a range over the map can visit its keys
KeyOrders(template) ==
    {o \in [1..Cardinality(DOMAIN template) -> DOMAIN template] :
        \A i, j \in DOMAIN o : o[i] = o[j] => i = j}

\* a test that takes a JSON object alone for a map
IsObjectText(text) == text.k = "obj"

\* json.Unmarshal into map[string]interface{}: an object, or null (the map stays nil)
IsMapText(text) == text.k \in {"obj", "null"}

MapOf(text) == IF text.k = "obj" THEN text.m ELSE <<>>

\* json.Unmarshal into []map[string]interface{}: an array of objects (or nulls)
IsMapArrayText(text) ==
    text.k = "arr" /\ \A i \in 1..Len(text.a) : IsMapText(text.a[i])

\* a nil map: it reads as a map with no entry
NilMap == <<>>

\* a decoder that fills the map from the last element of an array to the first
unmarshalReversed(text) ==
    IF IsMapText(text) /\ unmarshalNode(MapOf(text)).err = "nil"
    THEN [err |-> "nil", dataSet |-> [i \in {0} |-> unmarshalNode(MapOf(text)).node]]
    ELSE IF /\ IsMapArrayText(text)
            /\ \A i \in 1..Len(text.a) : unmarshalNode(MapOf(text.a[i])).err = "nil"
    THEN [err |-> "nil",
          dataSet |-> [i \in 0..(Len(text.a) - 1) |->
                          unmarshalNode(MapOf(text.a[Len(text.a) - i])).node]]
    ELSE [err |-> "json: cannot unmarshal", dataSet |-> NilMap]

\* unmarshal(s): [err, dataSet]; dataSet maps 0..N-1 to records, nil on error
unmarshal(text) ==
    IF IsMapText(text)
    THEN LET one == unmarshalNode(MapOf(text))
         IN  IF one.err # "nil" THEN [err |-> one.err, dataSet |-> NilMap]
             ELSE [err |-> "nil", dataSet |-> [i \in {0} |-> one.node]]
    ELSE IF IsMapArrayText(text)
    THEN LET each == [i \in 1..Len(text.a) |-> unmarshalNode(MapOf(text.a[i]))]
         IN  IF \E i \in 1..Len(text.a) : each[i].err # "nil"
             THEN [err |-> each[CHOOSE i \in 1..Len(text.a) :
                                  /\ each[i].err # "nil"
                                  /\ \A j \in 1..(i - 1) : each[j].err = "nil"].err,
                   dataSet |-> NilMap]
             ELSE [err |-> "nil",
                   dataSet |-> [i \in 0..(Len(text.a) - 1) |-> each[i + 1].node]]
    ELSE [err |-> "json: cannot unmarshal", dataSet |-> NilMap]

\* template[0]: the map's entry at 0, a nil pointer when there is none
First(dataSet) == IF 0 \in DOMAIN dataSet THEN dataSet[0] ELSE Nil

\* pack(name, data): the text { "name": data }, compacted
pack(name, data) ==
    IF IsJSON(data)
    THEN [err |-> "nil", text |-> JObj(name :> data)]
    ELSE [err |-> "json: invalid character", text |-> JEmpty]

----------------------------------------------------------------------------
(* The status classifier *)

FatalError == "Fatal Error 500."

\* a check that takes a code without an entry for an error
checkStrict(List, Code) ==
    IF Code \in DOMAIN List THEN List[Code] ELSE "Unknown Status Code returned."

\* a classifier that leaves the table as the operation wrote it
NewErrorPlain(errorList, StatusCode) ==
    IF StatusCode \in DOMAIN errorList THEN errorList[StatusCode] ELSE "nil"

\* Error.check: the table's entry for the code, nil when it has none
check(List, Code) == IF Code \in DOMAIN List THEN List[Code] ELSE "nil"

\* NewError(errorList) with this.StatusCode = StatusCode
NewError(errorList, StatusCode) ==
    check((500 :> FatalError) @@ errorList, StatusCode)

\* a table with no message set
NoErrors(key) == "nil"

\* the table New() of src/demo/demo.go fills (the library copy kept with the
\* demo); a key it does not set yields nil
Errors(key) ==
    CASE key = "UnknownStatus" -> "Unknown Status Code returned."
      [] key = "500" -> FatalError
      [] key = "404" -> "Node, Property, Relationship or Index not found"
      [] key = "TR404" -> "Node or path not found."
      [] key = "TR204" -> "No suitable path found."
      [] key = "GP404" -> "Node or Property not found."
      [] key = "GP204" -> "No properties found."
      [] key = "SP404" -> "Node not found."
      [] key = "SP400" -> "Invalid data sent."
      [] key = "DP404" -> "Node or Property not found."
      [] key = "CP404" -> "Node or Property not found."
      [] key = "CP400" -> "Invalid data sent."
      [] key = "DN404" -> "Node not found."
      [] key = "DN409" -> "Unable to delete node. May still have relationships."
      [] key = "CR404" -> "Node or 'to' node not found."
      [] key = "CR400" -> "Invalid data sent."
      [] key = "DR404" -> "Relationship not found."
      [] key = "SR404" -> "Relationship not found."
      [] key = "SR400" -> "Invalid data sent."
      [] key = "GR404" -> "Node not found."
      [] OTHER -> "nil"

\* chkStatusCode(self) of src/demo/demo.go with this.StatusCode = StatusCode
chkStatusCode(self, StatusCode) ==
    CASE StatusCode = 500 -> Errors("500")
      [] StatusCode = 409 ->
            IF self = "dn" THEN Errors("DN409") ELSE "nil"
      [] StatusCode = 404 ->
            CASE self = "cr" -> Errors("CR404")
              [] self = "dr" -> Errors("DR404")
              [] self = "sr" -> Errors("SR404")
              [] self = "gr" -> Errors("GR404")
              [] self = "cn" -> Errors("CN404")
              [] self = "dn" -> Errors("DN404")
              [] self = "gn" -> Errors("GN404")
              [] self = "cp" -> Errors("CP404")
              [] self = "sp" -> Errors("SP404")
              [] self = "dp" -> Errors("DP404")
              [] self = "gp" -> Errors("GP404")
              [] self = "tr" -> Errors("TR404")
              [] OTHER -> Errors("404")
      [] StatusCode = 400 ->
            CASE self = "cr" -> Errors("CR400")
              [] self = "dr" -> Errors("DR400")
              [] self = "sr" -> Errors("SR400")
              [] self = "cn" -> Errors("CN400")
              [] self = "cp" -> Errors("CP400")
              [] self = "sp" -> Errors("SP400")
              [] self = "gp" -> Errors("GP400")
              [] OTHER -> "nil"
      [] StatusCode = 204 ->
            CASE self = "gp" -> Errors("GP204")
              [] self = "tr" -> Errors("TR204")
              [] OTHER -> "nil"
      [] StatusCode = 201 -> "nil"
      [] StatusCode = 200 -> "nil"
      [] OTHER -> Errors("UnknownStatus")

----------------------------------------------------------------------------
(* The string escaper *)

escapedChars == {"&", "'", "<", ">", "\"", "*", "[", "]", ":", "%", " "}

\* strings.IndexAny(s, escapedChars), counted from 1; 0 for Go's -1
IndexAny(s, chars) ==
    IF \E i \in 1..Len(s) : s[i] \in chars
    THEN CHOOSE i \in 1..Len(s) :
            s[i] \in chars /\ \A j \in 1..(i - 1) : s[j] \notin chars
    ELSE 0

\* the switch of escape
EscapeOf(c) ==
    CASE c = "%" -> <<"%", "2", "5">>
      [] c = "&" -> <<"&", "amp", ";">>
      [] c = "'" -> <<"&", "apos", ";">>
      [] c = "<" -> <<"&", "lt", ";">>
      [] c = ">" -> <<"&", "gt", ";">>
      [] c = "\"" -> <<"&", "quot", ";">>
      [] c = " " -> <<"%", "2", "0">>
      [] c = "*" -> <<"%", "2", "A">>
      [] c = ":" -> <<"%", "3", "A">>
      [] c = "[" -> <<"%", "5", "B">>
      [] c = "]" -> <<"%", "5", "D">>
      [] OTHER -> <<"panic: unrecognized escape character">>

RECURSIVE escape(_)
escape(s) ==
    LET i == IndexAny(s, escapedChars)
    IN  IF i = 0 THEN s
        ELSE SubSeq(s, 1, i - 1) \o EscapeOf(s[i]) \o escape(SubSeq(s, i + 1, Len(s)))

\* an escaper that stops after the first reserved character
EscapeStringOnce(s) ==
    LET i == IndexAny(s, escapedChars)
    IN  IF i = 0 THEN s
        ELSE SubSeq(s, 1, i - 1) \o EscapeOf(s[i]) \o SubSeq(s, i + 1, Len(s))

EscapeString(s) == IF IndexAny(s, escapedChars) = 0 THEN s ELSE escape(s)

----------------------------------------------------------------------------
(* The endpoint operations, each as the sequence of steps its code runs.    *)
(* A step is one of                                                         *)
(*   check:     an argument check that returns a validation error           *)
(*   set:       this.Method = m (after reading the records in uses)         *)
(*   send:      this.send(url, data); checked when its error is returned    *)
(*   unmarshal: this.unmarshal(body), after this.pack when packed           *)
(*   newError:  this.NewError(errorList); ret when the operation returns    *)
(*              with it, else the GetNode call of an operation, whose       *)
(*              record goes to slot and whose error ends the operation      *)

Check(ok, err) == [i |-> "check", ok |-> ok, err |-> err]

SetMethod(m, uses) == [i |-> "set", m |-> m, uses |-> uses]

Send(url, data, checked, item) ==
    [i |-> "send", url |-> url, data |-> data, checked |-> checked, item |-> item]

Unmarshal(packed) == [i |-> "unmarshal", packed |-> packed]

Classify(fn, tag, errorList, ret, slot, val) ==
    [i |-> "newError", fn |-> fn, tag |-> tag, list |-> errorList, ret |-> ret,
     slot |-> slot, val |-> val]

\* URLs: this.URL + suffix, a link of a resolved record + suffix, or the
\* record's traverse template with {returnType} replaced
FromBase(suffix) == [f |-> "base", suf |-> suffix]

FromLink(slot, field, suffix) ==
    [f |-> "link", slot |-> slot, field |-> field, suf |-> suffix]

FromTemplate(slot, returnType) == [f |-> "template", slot |-> slot, rt |-> returnType]

\* request data: a text known at the call, json.Marshal of a map that holds
\* "to": dstNode.Self, or strconv.Quote(template.Self)
Text(text) == [f |-> "text", text |-> text]

WithTo(slot, rest) == [f |-> "to", slot |-> slot, rest |-> rest]

QuotedSelf(slot) == [f |-> "self", slot |-> slot]

\* GetNode(id): the steps, the record going to slot ("ret": returned to the caller)
GetNodeSteps(id, slot) ==
    << Check(~(id < 1), "Invalid node id specified."),
       SetMethod("get", {}),
       Send(FromBase(<<"/", "node", "/">> \o FormatUint(id)), Text(JEmpty), TRUE, FALSE),
       Unmarshal(FALSE),
       Classify("GetNode", "gn", 404 :> "Node not found.", slot = "ret", slot, "first") >>

\* a GetNode that resolves the node before it reads it
GetNodeTwice(id) == GetNodeSteps(id, "node") \o GetNodeSteps(id, "ret")

GetNode(id) == GetNodeSteps(id, "ret")

GetProperty(id, name) ==
    << Check(~(Len(name) < 1), "Property name must be at least 1 character.") >>
    \o GetNodeSteps(id, "node")
    \o << SetMethod("get", {}),
          Send(FromLink("node", "Properties", <<"/">> \o name), Text(JEmpty), TRUE, FALSE),
          Classify("GetProperty", "gp",
                   (404 :> "Node or Property not found.") @@ (204 :> "No properties found."),
                   TRUE, "ret", "body") >>

GetProperties(id) ==
    GetNodeSteps(id, "node")
    \o << SetMethod("get", {}),
          Send(FromLink("node", "Properties", <<>>), Text(JEmpty), TRUE, FALSE),
          Unmarshal(TRUE),
          Classify("GetProperties", "gp",
                   (404 :> "Node or Property not found.") @@ (204 :> "No properties found."),
                   TRUE, "ret", "first") >>

\* the requests of the update: one with the whole set, or one per key, in the
\* order the range over the map visits the keys
PropertySends(data, replace, order) ==
    IF replace
    THEN << Send(FromLink("node", "Properties", <<>>), Text(Marshal(data)), TRUE, FALSE) >>
    ELSE [n \in 1..Len(order) |->
            Send(FromLink("node", "Properties", <<"/">> \o TrimSpace(order[n])),
                 Text(Quote(data[order[n]])), TRUE, TRUE)]

SetProperty(id, data, replace, order) ==
    GetNodeSteps(id, "node")
    \o << SetMethod("put", {}) >>
    \o PropertySends(data, replace, order)
    \o << Classify("SetProperty", "sp",
                   (404 :> "Node not found.") @@ (400 :> "Invalid data sent."),
                   TRUE, "ret", "none") >>

CreateProperty(id, data, replace, order) ==
    GetNodeSteps(id, "node")
    \o << SetMethod("put", {}) >>
    \o PropertySends(data, replace, order)
    \o << Classify("CreateProperty", "cp",
                   (404 :> "Node or Property not found.") @@ (400 :> "Invalid data sent."),
                   TRUE, "ret", "none") >>

\* a property deletion that sends its DELETE without resolving the node first
DelPropertyDirect(id, name) ==
    << SetMethod("delete", {}),
       Send(FromBase(<<"/", "node", "/">> \o FormatUint(id) \o <<"/", "properties", "/">>
                     \o name),
            Text(JEmpty), TRUE, FALSE),
       Classify("DelProperty", "dp", 404 :> "Node or Property not found.",
                TRUE, "ret", "none") >>

DelProperty(id, name) ==
    GetNodeSteps(id, "node")
    \o << SetMethod("delete", {}),
          Send(FromLink("node", "Properties", <<"/">> \o name), Text(JEmpty), TRUE, FALSE),
          Classify("DelProperty", "dp", 404 :> "Node or Property not found.",
                   TRUE, "ret", "none") >>

\* a node deletion whose table has no entry for 409
DelNodeNoConflict(id) ==
    GetNodeSteps(id, "node")
    \o << SetMethod("delete", {}),
          Send(FromLink("node", "Self", <<>>), Text(JEmpty), TRUE, FALSE),
          Classify("DelNode", "dn", 404 :> "Node not found.", TRUE, "ret", "none") >>

DelNode(id) ==
    GetNodeSteps(id, "node")
    \o << SetMethod("delete", {}),
          Send(FromLink("node", "Self", <<>>), Text(JEmpty), TRUE, FALSE),
          Classify("DelNode", "dn",
                   (404 :> "Node not found.")
                   @@ (409 :> "Unable to delete node. May still have relationships."),
                   TRUE, "ret", "none") >>

CreateNode(data) ==
    << SetMethod("post", {}),
       Send(FromBase(<<"/", "node">>), Text(Marshal(data)), TRUE, FALSE),
       Unmarshal(FALSE),
       Classify("CreateNode", "cn", 400 :> "Invalid data sent.", TRUE, "ret", "first") >>

\* the switch on the lowered direction
DirectionLink(direction) ==
    CASE ToLower(direction) = "in" -> "RelationshipsIn"
      [] ToLower(direction) = "out" -> "RelationshipsOut"
      [] OTHER -> "RelationshipsAll"

GetRelationshipsOnNode(id, name, direction) ==
    GetNodeSteps(id, "node")
    \o << SetMethod("get", {}),
          Send(FromLink("node", DirectionLink(direction), <<"/">> \o name),
               Text(JEmpty), TRUE, FALSE),
          Unmarshal(FALSE),
          Classify("GetRelationshipsOnNode", "gr", 404 :> "Node not found.",
                   TRUE, "ret", "set") >>

SetRelationship(id, data) ==
    << SetMethod("put", {}),
       Send(FromBase(<<"/", "relationship", "/">> \o FormatUint(id)
                     \o <<"/", "properties">>),
            Text(Marshal(data)), TRUE, FALSE),
       Classify("SetRelationship", "sr",
                (404 :> "Relationship not found.") @@ (400 :> "Invalid data sent."),
                TRUE, "ret", "none") >>

DelRelationship(ids) ==
    << SetMethod("delete", {}) >>
    \o [n \in 1..Len(ids) |->
          Send(FromBase(<<"/", "relationship", "/">> \o FormatUint(ids[n])),
               Text(JEmpty), TRUE, TRUE)]
    \o << Classify("DelRelationship", "dr", 404 :> "Relationship not found.",
                   TRUE, "ret", "none") >>

CreateRelationship(src, dst, data, rType) ==
    GetNodeSteps(dst, "dst")
    \o GetNodeSteps(src, "src")
    \o << SetMethod("post", {"dst"}),
          Send(FromLink("src", "RelationshipsCreate", <<>>),
               WithTo("dst", (<<"type">> :> JStr(rType)) @@ (<<"data">> :> Marshal(data))),
               TRUE, FALSE),
          Classify("CreateRelationship", "cr",
                   (404 :> "Node or 'to' node not found.") @@ (400 :> "Invalid data sent."),
                   TRUE, "ret", "none") >>

\* an index chosen by comparing the type as it is written
IndexKindExact(idxType) == IF idxType = "relationship" THEN "relationship" ELSE "node"

\* the index a request addresses
IndexKind(idxType) ==
    IF ToLower(idxType) = "relationship" THEN "relationship" ELSE "node"

SearchIdx(key, value, query, cat, idxType) ==
    << SetMethod("get", {}),
       Send(FromBase(<<"/", "index", "/", IndexKind(idxType), "/">> \o cat
                     \o (IF Len(query) > 0
                         THEN <<"?query=">> \o EscapeString(query)
                         ELSE <<"/">> \o TrimSpace(key) \o <<"/">> \o EscapeString(value))),
            Text(JEmpty), TRUE, FALSE),
       Unmarshal(FALSE),
       Classify("SearchIdx", "si", 400 :> "Invalid data sent.", TRUE, "ret", "set") >>

\* a CreateIdx that leaves this.Method as the node resolution set it
CreateIdxUnset(id, key, value, cat, idxType) ==
    GetNodeSteps(id, "node")
    \o << Send(FromBase(<<"/", "index", "/",
                          IndexKind(IF Len(cat) < 1 THEN "idx_nodes" ELSE idxType), "/">>
                        \o cat \o <<"/">> \o key \o <<"/">> \o value \o <<"/">>),
               QuotedSelf("node"), FALSE, FALSE),
          Classify("CreateIdx", "none", 400 :> "Invalid data sent.", TRUE, "ret", "none") >>

CreateIdx(id, key, value, cat, idxType) ==
    GetNodeSteps(id, "node")
    \o << SetMethod("post", {"node"}),
          Send(FromBase(<<"/", "index", "/",
                          IndexKind(IF Len(cat) < 1 THEN "idx_nodes" ELSE idxType), "/">>
                        \o cat \o <<"/">> \o key \o <<"/">> \o value \o <<"/">>),
               QuotedSelf("node"), FALSE, FALSE),
          Classify("CreateIdx", "none", 400 :> "Invalid data sent.", TRUE, "ret", "none") >>

\* a return type that is lowered and passed on as it is
ReturnTypeLowered(returnType) == ToLower(returnType)

\* the allow-list of Traverse
ReturnType(returnType) ==
    IF ToLower(returnType) \in {"relationship", "path", "fullpath", "node"}
    THEN ToLower(returnType)
    ELSE "node"

Traverse(id, returnType, order, uniqueness) ==
    GetNodeSteps(id, "node")
    \o << SetMethod("post", {}),
          Send(FromTemplate("node", ReturnType(returnType)),
               Text(JObj((<<"order">> :> JStr(order)) @@ (<<"max depth">> :> JNum)
                         @@ (<<"uniqueness">> :> JStr(uniqueness)))),
               TRUE, FALSE),
          Unmarshal(FALSE),
          Classify("Traverse", "tr", 404 :> "Node not found.", TRUE, "ret", "set") >>

TraversePath(src, dst, algo, paths) ==
    GetNodeSteps(dst, "dst")
    \o GetNodeSteps(src, "src")
    \o << SetMethod("post", {"dst"}),
          Send(FromLink("src", "Self", IF paths THEN <<"/", "paths">> ELSE <<"/", "path">>),
               WithTo("dst", (<<"max depth">> :> JNum) @@ (<<"algorithm">> :> JStr(algo))
                             @@ (<<"relationships">> :> JNull)),
               TRUE, FALSE),
          Unmarshal(FALSE),
          Classify("TraversePath", "tr",
                   404 :> "No path found using current algorithm and parameters",
                   TRUE, "ret", "set") >>

\* the steps of a call
Program(call) ==
    CASE call.op = "GetNode" -> GetNode(call.id)
      [] call.op = "GetProperty" -> GetProperty(call.id, call.name)
      [] call.op = "GetProperties" -> GetProperties(call.id)
      [] call.op = "SetProperty" ->
            SetProperty(call.id, call.data, call.replace, call.order)
      [] call.op = "CreateProperty" ->
            CreateProperty(call.id, call.data, call.replace, call.order)
      [] call.op = "DelProperty" -> DelProperty(call.id, call.name)
      [] call.op = "DelNode" -> DelNode(call.id)
      [] call.op = "CreateNode" -> CreateNode(call.data)
      [] call.op = "GetRelationshipsOnNode" ->
            GetRelationshipsOnNode(call.id, call.name, call.direction)
      [] call.op = "SetRelationship" -> SetRelationship(call.id, call.data)
      [] call.op = "DelRelationship" -> DelRelationship(call.ids)
      [] call.op = "CreateRelationship" ->
            CreateRelationship(call.src, call.dst, call.data, call.rType)
      [] call.op = "SearchIdx" ->
            SearchIdx(call.key, call.value, call.query, call.cat, call.idxType)
      [] call.op = "CreateIdx" ->
            CreateIdx(call.id, call.key, call.value, call.cat, call.idxType)
      [] call.op = "Traverse" ->
            Traverse(call.id, call.returnType, call.order, call.uniqueness)
      [] call.op = "TraversePath" ->
            TraversePath(call.src, call.dst, call.algo, call.paths)

----------------------------------------------------------------------------
(* The server and the network: what a request may be answered with *)

Statuses == {200, 201, 204, 400, 404, 409, 500, 503}

ServerRoot == <<"srv">>

NodeLink(id) == ServerRoot \o <<"/", "node", "/">> \o FormatUint(id)

\* the representation of a node as the server sends it
NodeJSON(id) ==
    JObj( (<<"self">> :> JStr(NodeLink(id)))
       @@ (<<"properties">> :> JStr(NodeLink(id) \o <<"/", "properties">>))
       @@ (<<"traverse">> :> JStr(NodeLink(id) \o <<"/", "traverse", "/", "{returnType}">>))
       @@ (<<"create_relationship">> :> JStr(NodeLink(id) \o <<"/", "relationships">>))
       @@ (<<"all_relationships">> :> JStr(NodeLink(id) \o <<"/", "relationships", "/", "all">>))
       @@ (<<"incoming_relationships">> :> JStr(NodeLink(id) \o <<"/", "relationships", "/", "in">>))
       @@ (<<"outgoing_relationships">> :> JStr(NodeLink(id) \o <<"/", "relationships", "/", "out">>))
       @@ (<<"data">> :> JObj(<<>>)) )

\* an object whose self link does not end in a number
BadSelfJSON == JObj(<<"self">> :> JStr(ServerRoot \o <<"/", "node", "/", "x">>))

Bodies == {NodeJSON(1), JArr(<<NodeJSON(1)>>), JArr(<<>>), BadSelfJSON, JEmpty}

\* a request fails in the HTTP layer (no response), or its body cannot be read,
\* or it is answered with a status and a body
Outcomes ==
    {[t |-> "transport"], [t |-> "read"]}
    \cup {[t |-> "response", status |-> st, body |-> b] : st \in Statuses, b \in Bodies}

\* the answers explored while two sessions take turns, or have a client each
SmallOutcomes ==
    {[t |-> "transport"]}
    \cup {[t |-> "response", status |-> st, body |-> NodeJSON(1)] : st \in {200, 404}}

\* the answers explored while sessions run side by side on one client
SharedOutcomes ==
    {[t |-> "response", status |-> st, body |-> NodeJSON(1)] : st \in {200, 404}}

\* the answer to the probe of NewNeo4j explored in front of a server that
\* keeps its nodes
StoreProbe == {[t |-> "response", status |-> 200, body |-> JEmpty]}

\* what may come of the probe of NewNeo4j, explored for the constructor alone
ProbeOutcomes ==
    {[t |-> "transport"], [t |-> "read"]}
    \cup {[t |-> "response", status |-> st, body |-> JEmpty] : st \in Statuses}

OutcomesIn(m) ==
    CASE m = "seq" -> Outcomes
      [] m = "shared" -> SharedOutcomes
      [] m = "store" -> StoreProbe
      [] m = "new" -> ProbeOutcomes
      [] OTHER -> SmallOutcomes

----------------------------------------------------------------------------
(* A server that keeps its nodes.  nodes maps the identifier of every node  *)
(* to the node's properties, a map from keys to JSON values.                *)

DefaultURL == <<"http://127.0.0.1:7474/db/data">>

NodeIds == 1..MaxNodes

NoNodes == <<>>

\* the node the server starts with
StoredAtStart ==
    1 :> ((<<"test1">> :> JStr(<<"bar">>)) @@ (<<"test3">> :> JStr(<<"bar">>)))

\* the representation of a node with its properties
NodeWith(id, props) == JObj((<<"data">> :> JObj(props)) @@ NodeJSON(id).m)

NotFoundBody == JObj(<<"message">> :> JStr(<<"not found">>))

Response(status, body) == [t |-> "response", status |-> status, body |-> body]

NodeURL(id) == DefaultURL \o <<"/", "node", "/">> \o FormatUint(id)

PropertiesLink(id) == NodeLink(id) \o <<"/", "properties">>

IsPrefix(p, s) == Len(p) <= Len(s) /\ SubSeq(s, 1, Len(p)) = p

\* the answer of a working server to a request, and the nodes it keeps then:
\*   POST {base}/node               creates a node with the properties sent
\*   GET  {base}/node/{id}          the representation of the node
\*   GET  {node}/properties         the properties (204 when there are none)
\*   PUT  {node}/properties         replaces all properties by the ones sent
\*   PUT  {node}/properties/{key}   sets the one property, keeps the others
Handle(nodes, req) ==
    LET ids == DOMAIN nodes
        at(id) == PropertiesLink(id) \o <<"/">>
        same == [out |-> Response(404, NotFoundBody), nodes |-> nodes]
    IN  IF req.verb = "POST" /\ req.url = DefaultURL \o <<"/", "node">>
        THEN IF req.data.k = "obj" /\ Cardinality(ids) < MaxNodes
             THEN LET id == Cardinality(ids) + 1
                  IN  [out |-> Response(201, NodeWith(id, req.data.m)),
                       nodes |-> (id :> req.data.m) @@ nodes]
             ELSE [out |-> Response(400, JEmpty), nodes |-> nodes]
        ELSE IF req.verb = "GET" /\ \E id \in ids : req.url = NodeURL(id)
        THEN LET id == CHOOSE id \in ids : req.url = NodeURL(id)
             IN  [out |-> Response(200, NodeWith(id, nodes[id])), nodes |-> nodes]
        ELSE IF req.verb = "GET" /\ \E id \in ids : req.url = PropertiesLink(id)
        THEN LET id == CHOOSE id \in ids : req.url = PropertiesLink(id)
             IN  [out |-> IF DOMAIN nodes[id] = {} THEN Response(204, JEmpty)
                          ELSE Response(200, JObj(nodes[id])),
                  nodes |-> nodes]
        ELSE IF req.verb = "PUT" /\ \E id \in ids : req.url = PropertiesLink(id)
        THEN LET id == CHOOSE id \in ids : req.url = PropertiesLink(id)
             IN  IF req.data.k = "obj"
                 THEN [out |-> Response(204, JEmpty),
                       nodes |-> [nodes EXCEPT ![id] = req.data.m]]
                 ELSE [out |-> Response(400, JEmpty), nodes |-> nodes]
        ELSE IF req.verb = "PUT" /\ \E id \in ids : IsPrefix(at(id), req.url)
        THEN LET id == CHOOSE id \in ids : IsPrefix(at(id), req.url)
                 key == SubSeq(req.url, Len(at(id)) + 1, Len(req.url))
             IN  IF key # <<>> /\ req.data.k = "str"
                 THEN [out |-> Response(204, JEmpty),
                       nodes |-> [nodes EXCEPT ![id] = (key :> req.data) @@ @]]
                 ELSE [out |-> Response(400, JEmpty), nodes |-> nodes]
        ELSE same

\* what may come of a request: the server answers it, or it fails in the HTTP
\* layer before it reaches the server, or the server fails on it (500); the
\* nodes are as they were in the last two cases
Served(nodes, req) ==
    {Handle(nodes, req),
     [out |-> [t |-> "transport"], nodes |-> nodes],
     [out |-> Response(500, JEmpty), nodes |-> nodes]}

----------------------------------------------------------------------------
(* The calls a session may make *)

KeyPool == << <<"test3">>, <<" ", "test4">>, <<"test5">> >>

\* the data map with the first n keys of the pool
DataMap(n) == [key \in {KeyPool[i] : i \in 1..n} |-> <<"foo">>]

\* the orders in which a range over the map may visit its keys
Orders(data) ==
    {o \in [1..Cardinality(DOMAIN data) -> DOMAIN data] :
        \A i, j \in 1..Cardinality(DOMAIN data) : i # j => o[i] # o[j]}

RelIds == {1, 2}

IdLists == UNION {[1..n -> RelIds] : n \in 0..MaxIds}

PropertyCalls(op) ==
    UNION {{[op |-> op, id |-> 1, data |-> DataMap(n), replace |-> FALSE, order |-> o] :
                o \in Orders(DataMap(n))}
           \cup {[op |-> op, id |-> 1, data |-> DataMap(n), replace |-> TRUE, order |-> <<>>]}
           : n \in 0..MaxKeys}

\* calls with an identifier of zero or an empty property name, to the
\* operations that do not look at the argument themselves
InvalidCalls ==
    {[op |-> "DelProperty", id |-> 1, name |-> <<>>],
     [op |-> "SetRelationship", id |-> 0, data |-> DataMap(1)],
     [op |-> "DelRelationship", ids |-> <<0>>],
     [op |-> "DelNode", id |-> 0]}

SeqCalls ==
    InvalidCalls
    \cup {[op |-> "GetNode", id |-> id] : id \in {0, 1}}
    \cup {[op |-> "GetProperty", id |-> 1, name |-> nm] : nm \in {<<>>, <<"test3">>}}
    \cup {[op |-> "GetProperty", id |-> 0, name |-> <<"test3">>]}
    \cup {[op |-> "GetProperties", id |-> 1]}
    \cup PropertyCalls("SetProperty") \cup PropertyCalls("CreateProperty")
    \cup {[op |-> "DelProperty", id |-> 1, name |-> <<"test3">>]}
    \cup {[op |-> "DelNode", id |-> 1]}
    \cup {[op |-> "CreateNode", data |-> DataMap(1)]}
    \cup {[op |-> "GetRelationshipsOnNode", id |-> 1, name |-> <<"KNOWS">>,
           direction |-> d] : d \in {"IN", "all"}}
    \cup {[op |-> "SetRelationship", id |-> 1, data |-> DataMap(1)]}
    \cup {[op |-> "DelRelationship", ids |-> ids] : ids \in IdLists}
    \cup {[op |-> "CreateRelationship", src |-> src, dst |-> dst, data |-> DataMap(1),
           rType |-> <<"KNOWS">>] : src \in {0, 1}, dst \in {0, 2}}
    \cup {[op |-> "SearchIdx", key |-> key, value |-> value,
           query |-> q, cat |-> <<"idx_type">>, idxType |-> idxType] :
            key \in {<<"a_test">>, <<" ", "a_test", " ">>},
            value \in {<<"testing", "1">>, <<"testing", " ", "1">>},
            q \in {<<>>, <<"a_test", ":", "testing", "*">>},
            idxType \in {"node", "Relationship", "relationships"}}
    \cup {[op |-> "CreateIdx", id |-> 1, key |-> <<"a_test">>, value |-> <<"testing", "1">>,
           cat |-> <<"idx_type">>, idxType |-> "node"]}
    \cup {[op |-> "Traverse", id |-> 1, returnType |-> rt, order |-> <<"depth first">>,
           uniqueness |-> <<"node">>] : rt \in {"node", "FullPath", "Relationship", "nodes"}}
    \cup {[op |-> "TraversePath", src |-> 1, dst |-> dst, algo |-> <<"shortestPath">>,
           paths |-> ps] : dst \in {0, 2}, ps \in BOOLEAN}

\* the calls explored while two sessions take turns, or have a client each
SmallCalls ==
    {[op |-> "GetNode", id |-> id] : id \in {0, 1}}
    \cup {[op |-> "DelNode", id |-> 1]}
    \cup {[op |-> "DelRelationship", ids |-> ids] : ids \in {<<>>, <<1>>}}

\* the calls explored while sessions run side by side on one client: the first
\* session reads a node, the second deletes a relationship, a further one calls
\* DelRelationship with no ids
SharedCalls(s) ==
    CASE s = 1 -> {[op |-> "GetNode", id |-> 1]}
      [] s = 2 -> {[op |-> "DelRelationship", ids |-> <<1>>]}
      [] OTHER -> {[op |-> "DelRelationship", ids |-> <<>>]}

\* the data map with the given keys
DataOf(keys) == [key \in keys |-> <<"foo">>]

StoreData == {DataOf({<<"test3">>, <<"test5">>}), DataOf({<<" ", "test4">>})}

\* the calls explored in front of a server that keeps its nodes
StoreCalls ==
    {[op |-> "GetNode", id |-> id] : id \in NodeIds}
    \cup {[op |-> "GetProperties", id |-> 1]}
    \cup UNION {{[op |-> op, id |-> 1, data |-> d, replace |-> FALSE, order |-> o] :
                    o \in Orders(d)}
                : op \in {"SetProperty", "CreateProperty"}, d \in StoreData}
    \cup {[op |-> "SetProperty", id |-> 1, data |-> d, replace |-> TRUE, order |-> <<>>] :
            d \in StoreData}
    \cup {[op |-> "CreateNode", data |-> DataOf({<<"test1">>, <<" ", "test4">>})]}

CallsIn(m, s) ==
    CASE m = "seq" -> SeqCalls
      [] m = "shared" -> SharedCalls(s)
      [] m = "store" -> StoreCalls
      [] OTHER -> SmallCalls

----------------------------------------------------------------------------
(* State *)

Slots == {"node", "dst", "src"}

URLArgs == {<<>>}

OtherURL == <<"http://db:7474/db/data">>

\* the arguments NewNeo4j is called with
URLArgsIn(m) == IF m = "new" THEN URLArgs \cup {OtherURL} ELSE URLArgs

\* a base URL taken as it is given
BaseURLGiven(u) == u

\* if len(u) < 1 { u = "http://127.0.0.1:7474/db/data" }
BaseURL(u) == IF Len(u) < 1 THEN DefaultURL ELSE u

NoValue == [t |-> "none"]

NoClass == [fn |-> "none", tag |-> "none", code |-> 0, err |-> "nil", chk |-> "nil",
            from |-> "none", listed |-> FALSE, own |-> FALSE]

\* no call made before
NoPrev == [call |-> [op |-> "none"], err |-> "nil", id |-> 0, before |-> NoNodes]

\* a session that runs no call
Idle ==
    [pc |-> "idle", call |-> [op |-> "none"], ip |-> 0,
     node |-> [x \in Slots |-> Nil], body |-> JEmpty, dataSet |-> Nil,
     result |-> [err |-> "nil", val |-> NoValue],
     \* what the call has done so far
     reqs |-> <<>>,                          \* its requests, each with its outcome
     fail |-> [err |-> "nil", at |-> 0],     \* its first transport or decode failure
     res |-> [err |-> "nil", at |-> 0],      \* its first failed node resolution
     cls |-> NoClass,                        \* its latest status classification
     \* in front of a server that keeps its nodes
     before |-> NoNodes,                     \* the server's nodes when the call began
     prev |-> NoPrev]                        \* the call the session made before

\* new(Neo4j), before NewNeo4j has set it up
Unbuilt ==
    [built |-> FALSE, URL |-> <<>>, Method |-> "", StatusCode |-> 0,
     mBy |-> 0, stBy |-> 0, probe |-> <<>>, err |-> "nil", arg |-> <<>>]

NoWrites ==
    [M |-> {}, S |-> {}, ownM |-> "", ownS |-> 0, mCur |-> FALSE, sCur |-> FALSE]

\* the client a session calls
Owner(s) == IF mode \in {"own", "new"} THEN s ELSE 1

\* the sessions that make calls
Active == IF mode \in {"seq", "store"} THEN {1} ELSE Sessions

Stored == mode = "store"

Racy == mode = "shared"

Crashed == \E s \in Sessions : sess[s].pc = "panic"

InitIn(m) ==
    /\ mode = m
    /\ client = [c \in Clients |-> Unbuilt]
    /\ sess = [s \in Sessions |-> Idle]
    /\ hist = [s \in Sessions |-> NoWrites]
    /\ server = IF m = "store" THEN StoredAtStart ELSE NoNodes

Init == InitIn("seq")

InitShared == InitIn("shared")

InitOwn == InitIn("own")

InitSerial == InitIn("serial")

InitStore == InitIn("store")

InitNew == InitIn("new")

----------------------------------------------------------------------------
(* Reading and writing the client's fields *)

\* whose write a session reads: its current call's, an earlier call's (or the
\* constructor's), or another session's
By(w, s) == IF w = s THEN "cur" ELSE IF w = 0 THEN "stale" ELSE "other"

\* the values a read of this.Method by s may observe.  Without synchronization
\* the read observes the session's own last write or any write of another session.
\* a read of this.Method that may observe a value nobody wrote
MethodReadsAny(s) ==
    {[v |-> x, from |-> "other"] : x \in {"get", "post", "put", "delete"}}

MethodReads(s) ==
    IF Racy
    THEN {[v |-> hist[s].ownM, from |-> IF hist[s].mCur THEN "cur" ELSE "stale"]}
         \cup {[v |-> x, from |-> "other"] : x \in UNION {hist[t].M : t \in Sessions \ {s}}}
    ELSE {[v |-> client[Owner(s)].Method, from |-> By(client[Owner(s)].mBy, s)]}

\* a read of this.StatusCode that may observe a value nobody wrote
StatusReadsAny(s) == {[v |-> x, from |-> "other"] : x \in Statuses}

\* the values a read of this.StatusCode by s may observe
StatusReads(s) ==
    IF Racy
    THEN {[v |-> hist[s].ownS, from |-> IF hist[s].sCur THEN "cur" ELSE "stale"]}
         \cup {[v |-> x, from |-> "other"] : x \in UNION {hist[t].S : t \in Sessions \ {s}}}
    ELSE {[v |-> client[Owner(s)].StatusCode, from |-> By(client[Owner(s)].stBy, s)]}

\* a switch on this.Method as it is written, with no strings.ToLower
VerbExact(Method) ==
    CASE Method = "delete" -> "DELETE"
      [] Method = "post" -> "POST"
      [] Method = "put" -> "PUT"
      [] OTHER -> "GET"

\* the switch of send on strings.ToLower(this.Method)
Verb(Method) ==
    CASE ToLower(Method) = "delete" -> "DELETE"
      [] ToLower(Method) = "post" -> "POST"
      [] ToLower(Method) = "put" -> "PUT"
      [] OTHER -> "GET"

\* whether send puts the data into the request
HasBody(verb) == verb \in {"POST", "PUT"}

NoBody == [k |-> "nobody"]

\* the Content-Type send gives the request: that of client.Post and of
\* req.Header.Set, none for client.Get and for the DELETE request
ContentType(verb) == IF verb \in {"POST", "PUT"} THEN "application/json" ELSE ""

\* a send that clears this.StatusCode when it returns an error
StatusCleared(old, out) == IF out.t = "response" THEN out.status ELSE 0

\* this.StatusCode when send returns: set from the response on the last line
\* but one, not touched on the two error returns
StatusAfter(old, out) == IF out.t = "response" THEN out.status ELSE old

\* send: the url the request goes to
Target(c, url) == IF Len(url) < 1 THEN client[c].URL \o <<"node">> ELSE url

RECURSIVE ReplaceFirst(_, _, _)
\* strings.Replace(s, old, new, 1) for a one-token old
ReplaceFirst(s, old, new) ==
    IF s = <<>> THEN <<>>
    ELSE IF s[1] = old THEN <<new>> \o Tail(s)
    ELSE <<s[1]>> \o ReplaceFirst(Tail(s), old, new)

\* the records a step reads through a pointer
SlotsOf(e) == IF e.f \in {"link", "template", "to", "self"} THEN {e.slot} ELSE {}

EvalUrl(c, node, e) ==
    CASE e.f = "base" -> client[c].URL \o e.suf
      [] e.f = "link" -> node[e.slot][e.field] \o e.suf
      [] e.f = "template" -> ReplaceFirst(node[e.slot].Traverse, "{returnType}", e.rt)

EvalData(node, e) ==
    CASE e.f = "text" -> e.text
      [] e.f = "to" -> JObj((<<"to">> :> JStr(node[e.slot].Self)) @@ e.rest)
      [] e.f = "self" -> Quote(node[e.slot].Self)

----------------------------------------------------------------------------
(* Steps *)

\* the step a session is at
Instr(s) == Program(sess[s].call)[sess[s].ip]

\* whether the step at ip belongs to the GetNode call of an operation
Resolving(prog, ip) ==
    LET j == CHOOSE k \in ip..Len(prog) :
                prog[k].i = "newError" /\ \A l \in ip..(k - 1) : prog[l].i # "newError"
    IN  ~prog[j].ret

\* whether the body a send returns is used by the step that follows
KeepsBody(prog, ip) ==
    \/ prog[ip + 1].i = "unmarshal"
    \/ prog[ip + 1].i = "newError" /\ prog[ip + 1].val = "body"

\* a test of err that lets every error pass
Unchecked(err) == FALSE

\* if err != nil { return err }
Failed(err) == err # "nil"

\* the session r after "return val, err"
Returned(r, err, val) ==
    [r EXCEPT !.pc = "done", !.result = [err |-> err, val |-> val],
              !.body = JEmpty, !.dataSet = Nil]

\* the session r with the error err that the step of s raised written down:
\* as its first transport or decode failure when it is one (failure), and as
\* its first failed node resolution when the step is part of a GetNode call
Noted(r, s, err, failure) ==
    LET at == [err |-> err, at |-> Len(r.reqs)]
    IN  [r EXCEPT !.fail = IF failure /\ err # "nil" /\ @.err = "nil" THEN at ELSE @,
                  !.res = IF /\ Resolving(Program(sess[s].call), sess[s].ip)
                             /\ err # "nil" /\ @.err = "nil"
                          THEN at ELSE @]

\* NewNeo4j(u): the client set up, with one probe request sent through send
NewNeo4j(c) ==
    /\ ~client[c].built
    /\ c \in {Owner(s) : s \in Active}
    /\ \E u \in URLArgsIn(mode), out \in OutcomesIn(mode) :
        LET url == BaseURL(u)
            status == IF out.t = "response" THEN out.status ELSE 0
        IN  /\ client' = [client EXCEPT ![c] =
                    [built |-> TRUE, URL |-> url, Method |-> "", StatusCode |-> status,
                     mBy |-> 0, stBy |-> 0,
                     probe |-> <<[verb |-> Verb(""), url |-> url, data |-> NoBody,
                                  out |-> out.t]>>,
                     err |-> IF out.t = "response" THEN "nil" ELSE out.t,
                     arg |-> u]]
            /\ hist' = IF Racy
                       THEN [s \in Sessions |-> [NoWrites EXCEPT !.ownS = status]]
                       ELSE hist
    /\ UNCHANGED <<mode, sess, server>>

\* whether a call asks the server to change its nodes
Writes(call) == call.op \in {"CreateNode", "SetProperty", "CreateProperty"}

\* the call of session r as its caller has it, when it asked the server for a
\* change and returned no error: the identifier of the record it returned, and
\* the nodes the server had before it
Made(r) ==
    IF Writes(r.call) /\ r.result.err = "nil"
    THEN [call |-> r.call, err |-> r.result.err,
          id |-> IF r.result.val.t = "record" /\ r.result.val.v # Nil
                 THEN r.result.val.v.ID ELSE 0,
          before |-> r.before]
    ELSE NoPrev

\* a session calls an endpoint operation of its client
Call(s) ==
    /\ s \in Active
    /\ ~Crashed
    /\ sess[s].pc = "idle"
    /\ client[Owner(s)].built
    /\ mode = "serial" => \A t \in Sessions \ {s} : sess[t].pc \in {"idle", "done"}
    /\ \E call \in CallsIn(mode, s) :
        /\ Stored /\ call.op = "CreateNode" => Cardinality(DOMAIN server) < MaxNodes
        /\ sess' = [sess EXCEPT ![s] =
                        [Idle EXCEPT !.pc = "run", !.call = call, !.ip = 1,
                                     !.before = IF Stored /\ Writes(call)
                                                THEN server ELSE @,
                                     !.prev = sess[s].prev]]
    /\ client' = [client EXCEPT ![Owner(s)] =
                    [@ EXCEPT !.mBy = IF @ = s THEN 0 ELSE @,
                              !.stBy = IF @ = s THEN 0 ELSE @]]
    /\ hist' = [hist EXCEPT ![s] = [@ EXCEPT !.mCur = FALSE, !.sCur = FALSE]]
    /\ UNCHANGED <<mode, server>>

\* the caller has the result of the call: the session is free for its next call
Return(s) ==
    /\ sess[s].pc = "done"
    /\ sess' = [sess EXCEPT ![s] =
                    [Idle EXCEPT !.prev = IF Stored THEN Made(sess[s]) ELSE @]]
    /\ UNCHANGED <<mode, client, hist, server>>

\* an argument check
CheckStep(s) ==
    /\ ~Crashed
    /\ sess[s].pc = "run"
    /\ Instr(s).i = "check"
    /\ sess' = [sess EXCEPT ![s] =
                    IF Instr(s).ok THEN [@ EXCEPT !.ip = @ + 1]
                    ELSE Noted(Returned(@, Instr(s).err, NoValue), s, Instr(s).err, FALSE)]
    /\ UNCHANGED <<mode, client, hist, server>>

\* this.Method = m
SetMethodStep(s) ==
    /\ ~Crashed
    /\ sess[s].pc = "run"
    /\ Instr(s).i = "set"
    /\ IF \E x \in Instr(s).uses : sess[s].node[x] = Nil
       THEN /\ sess' = [sess EXCEPT ![s] = [@ EXCEPT !.pc = "panic"]]
            /\ UNCHANGED <<client, hist>>
       ELSE /\ sess' = [sess EXCEPT ![s] = [@ EXCEPT !.ip = @ + 1]]
            /\ client' = [client EXCEPT ![Owner(s)] =
                            [@ EXCEPT !.Method = Instr(s).m, !.mBy = s]]
            /\ hist' = IF Racy
                       THEN [hist EXCEPT ![s] =
                                [@ EXCEPT !.M = @ \cup {Instr(s).m},
                                          !.ownM = Instr(s).m, !.mCur = TRUE]]
                       ELSE hist
    /\ UNCHANGED <<mode, server>>

\* send, up to the request: the verb is chosen from this.Method
SendStep(s) ==
    /\ ~Crashed
    /\ sess[s].pc = "run"
    /\ Instr(s).i = "send"
    /\ IF \E x \in SlotsOf(Instr(s).url) \cup SlotsOf(Instr(s).data) : sess[s].node[x] = Nil
       THEN sess' = [sess EXCEPT ![s] = [@ EXCEPT !.pc = "panic"]]
       ELSE \E m \in MethodReads(s) :
              sess' = [sess EXCEPT ![s] =
                [@ EXCEPT !.pc = "wait",
                          !.reqs = Append(@,
                            [verb |-> Verb(m.v),
                             url |-> Target(Owner(s), EvalUrl(Owner(s), sess[s].node, Instr(s).url)),
                             data |-> IF HasBody(Verb(m.v))
                                      THEN EvalData(sess[s].node, Instr(s).data)
                                      ELSE NoBody,
                             by |-> m.from, item |-> Instr(s).item,
                             out |-> "pending", status |-> 0])]]
    /\ UNCHANGED <<mode, client, hist, server>>

\* what may come of the request session s waits for
Answered(s) ==
    IF Stored
    THEN Served(server, sess[s].reqs[Len(sess[s].reqs)])
    ELSE {[out |-> out, nodes |-> server] : out \in OutcomesIn(mode)}

\* send, from the answer on: the error returned, or the status stored in
\* this.StatusCode and the body returned
ResponseStep(s) ==
    /\ ~Crashed
    /\ sess[s].pc = "wait"
    /\ \E answer \in Answered(s) :
        LET n == Len(sess[s].reqs)
            prog == Program(sess[s].call)
            out == answer.out
        IN  /\ server' = answer.nodes
            /\ IF out.t # "response"
               THEN /\ sess' = [sess EXCEPT ![s] =
                           LET failed == Noted([@ EXCEPT !.reqs[n].out = out.t],
                                               s, out.t, TRUE)
                           IN  IF Instr(s).checked
                               THEN Returned(failed, out.t, NoValue)
                               ELSE [failed EXCEPT !.pc = "run", !.ip = @ + 1]]
                    /\ UNCHANGED <<client, hist>>
               ELSE /\ sess' = [sess EXCEPT ![s] =
                           [@ EXCEPT !.pc = "run", !.ip = @ + 1,
                                     !.reqs[n].out = out.t,
                                     !.reqs[n].status = out.status,
                                     !.body = IF KeepsBody(prog, sess[s].ip)
                                              THEN out.body ELSE JEmpty]]
                    /\ client' = [client EXCEPT ![Owner(s)] =
                                   [@ EXCEPT !.StatusCode = out.status, !.stBy = s]]
                    /\ hist' = IF Racy
                               THEN [hist EXCEPT ![s] =
                                       [@ EXCEPT !.S = @ \cup {out.status},
                                                 !.ownS = out.status, !.sCur = TRUE]]
                               ELSE hist
    /\ UNCHANGED mode

\* this.unmarshal(body), after this.pack("data", body) in GetProperties
UnmarshalStep(s) ==
    /\ ~Crashed
    /\ sess[s].pc = "run"
    /\ Instr(s).i = "unmarshal"
    /\ LET packed == IF Instr(s).packed THEN pack(<<"data">>, sess[s].body)
                     ELSE [err |-> "nil", text |-> sess[s].body]
           decoded == IF Failed(packed.err) THEN [err |-> packed.err, dataSet |-> NilMap]
                      ELSE unmarshal(packed.text)
       IN  sess' = [sess EXCEPT ![s] =
                Noted(IF Failed(decoded.err)
                      THEN Returned(@, decoded.err, NoValue)
                      ELSE [@ EXCEPT !.ip = @ + 1, !.body = JEmpty,
                                     !.dataSet = [m |-> decoded.dataSet]],
                      s, decoded.err, TRUE)]
    /\ UNCHANGED <<mode, client, hist, server>>

\* the value an operation returns beside the error of NewError
Value(s, kind) ==
    CASE kind = "first" -> [t |-> "record", v |-> First(sess[s].dataSet.m)]
      [] kind = "set" -> [t |-> "set", v |-> sess[s].dataSet.m]
      [] kind = "body" -> [t |-> "body", v |-> sess[s].body]
      [] OTHER -> NoValue

\* return ..., this.NewError(errorList): the status read from this.StatusCode
NewErrorStep(s) ==
    /\ ~Crashed
    /\ sess[s].pc = "run"
    /\ Instr(s).i = "newError"
    /\ \E st \in StatusReads(s) :
        LET in == Instr(s)
            err == NewError(in.list, st.v)
            cls == [fn |-> in.fn, tag |-> in.tag, code |-> st.v, err |-> err,
                    chk |-> IF in.tag = "none" THEN "n/a" ELSE chkStatusCode(in.tag, st.v),
                    from |-> st.from, listed |-> st.v \in DOMAIN in.list,
                    own |-> in.ret]
        IN  sess' = [sess EXCEPT ![s] =
                IF in.ret
                THEN [Returned(@, err, Value(s, in.val)) EXCEPT !.cls = cls]
                ELSE Noted(IF Failed(err)
                           THEN [Returned(@, err, NoValue) EXCEPT !.cls = cls]
                           ELSE [@ EXCEPT !.ip = @ + 1, !.cls = cls, !.body = JEmpty,
                                          !.dataSet = Nil,
                                          !.node[in.slot] = First(sess[s].dataSet.m)],
                           s, err, FALSE)]
    /\ UNCHANGED <<mode, client, hist, server>>

Next ==
    \/ \E c \in Clients : NewNeo4j(c)
    \/ \E s \in Sessions : Call(s)
    \/ \E s \in Sessions : Return(s)
    \/ \E s \in Sessions : CheckStep(s)
    \/ \E s \in Sessions : SetMethodStep(s)
    \/ \E s \in Sessions : SendStep(s)
    \/ \E s \in Sessions : ResponseStep(s)
    \/ \E s \in Sessions : UnmarshalStep(s)
    \/ \E s \in Sessions : NewErrorStep(s)

\* one session, one client
Spec == Init /\ [][Next]_vars

\* two sessions call one client with no synchronization
SpecShared == InitShared /\ [][Next]_vars

\* every session calls a client of its own
SpecOwn == InitOwn /\ [][Next]_vars

\* two sessions call one client, one call at a time
SpecSerial == InitSerial /\ [][Next]_vars

\* one session, one client, a server that keeps its nodes
SpecStore == InitStore /\ [][Next]_vars

NextNew == \E c \in Clients : NewNeo4j(c)

\* the constructor alone: every session sets up a client of its own
SpecNew == InitNew /\ [][NextNew]_vars

----------------------------------------------------------------------------
(* The escaper on its own: EscapeString applied to one string *)

\* the characters of the strings: the reserved ones and three others
Chars == escapedChars \cup {"a", "/", "1"}

EscapeArgs == UNION {[1..n -> Chars] : n \in 0..MaxChars}

InitEscape ==
    /\ mode = "escape"
    /\ client = [c \in Clients |-> Unbuilt]
    /\ hist = [s \in Sessions |-> NoWrites]
    /\ server = NoNodes
    /\ \E str \in EscapeArgs :
          sess = [s \in Sessions |->
                    IF s = 1
                    THEN [Idle EXCEPT !.pc = "escape",
                                      !.call = [op |-> "EscapeString", s |-> str]]
                    ELSE Idle]

\* this.EscapeString(s)
Escape(s) ==
    /\ sess[s].pc = "escape"
    /\ sess' = [sess EXCEPT ![s] =
                    [@ EXCEPT !.pc = "escaped",
                              !.result = [err |-> "nil",
                                          val |-> [t |-> "string",
                                                   v |-> EscapeString(sess[s].call.s)]]]]
    /\ UNCHANGED <<mode, client, hist, server>>

NextEscape == \E s \in Sessions : Escape(s)

\* EscapeString applied to every string of EscapeArgs
SpecEscape == InitEscape /\ [][NextEscape]_vars

----------------------------------------------------------------------------
(* send on its own: one request of a client whose fields hold any value *)

\* values of the exported field Method
MethodValues ==
    {"", "get", "GET", "Get", "post", "POST", "Post", "put", "PUT", "Put",
     "delete", "DELETE", "Delete", "head", "HEAD", "patch"}

\* the url and the data handed to send
SendUrls == {<<>>, NodeURL(1)}

SendData == {JEmpty, Marshal(<<"test1">> :> <<"foo">>)}

\* values of StatusCode before the request
EarlierStatus == {0, 404}

InitSend ==
    /\ mode = "send"
    /\ hist = [s \in Sessions |-> NoWrites]
    /\ server = NoNodes
    /\ \E m \in MethodValues, st \in EarlierStatus, url \in SendUrls, data \in SendData :
          /\ client = [c \in Clients |->
                         IF c = 1
                         THEN [Unbuilt EXCEPT !.built = TRUE, !.URL = DefaultURL,
                                              !.Method = m, !.StatusCode = st]
                         ELSE Unbuilt]
          /\ sess = [s \in Sessions |->
                       IF s = 1
                       THEN [Idle EXCEPT !.pc = "send",
                                         !.call = [op |-> "send", url |-> url, data |-> data,
                                                   Method |-> m, StatusCode |-> st]]
                       ELSE Idle]

\* send, up to the request
SendRequest(s) ==
    /\ sess[s].pc = "send"
    /\ LET verb == Verb(client[Owner(s)].Method)
       IN  sess' = [sess EXCEPT ![s] =
              [@ EXCEPT !.pc = "wait",
                        !.reqs = <<[verb |-> verb,
                                    url |-> Target(Owner(s), sess[s].call.url),
                                    data |-> IF HasBody(verb) THEN sess[s].call.data
                                             ELSE NoBody,
                                    ctype |-> ContentType(verb),
                                    out |-> [t |-> "pending"]]>>]]
    /\ UNCHANGED <<mode, client, hist, server>>

\* send, from the answer on
SendReturn(s) ==
    /\ sess[s].pc = "wait"
    /\ \E out \in Outcomes :
          /\ sess' = [sess EXCEPT ![s] =
                 [@ EXCEPT !.pc = "sent",
                           !.reqs[1].out = out,
                           !.result = IF out.t = "response"
                                      THEN [err |-> "nil",
                                            val |-> [t |-> "string", v |-> out.body]]
                                      ELSE [err |-> out.t,
                                            val |-> [t |-> "string", v |-> JEmpty]]]]
          /\ client' = [client EXCEPT ![Owner(s)] =
                          [@ EXCEPT !.StatusCode = StatusAfter(@, out)]]
    /\ UNCHANGED <<mode, hist, server>>

NextSend == \E s \in Sessions : SendRequest(s) \/ SendReturn(s)

\* one send for every Method, url, data and earlier StatusCode
SpecSend == InitSend /\ [][NextSend]_vars

----------------------------------------------------------------------------
(* The record decoder on its own: unmarshalNode applied to one JSON object *)

\* the keys of the objects: every key the decoder knows, and one it does not
FieldKeys ==
    {e[1] : e \in StringKeys}
        \cup {<<"self">>, <<"data">>, <<"extensions">>, <<"nodes">>,
              <<"relationships">>, <<"name">>}

\* a link with no number at its end
BadLink == JStr(ServerRoot \o <<"/", "node", "/", "x">>)

\* the values of the objects: one of each JSON kind, and the bad link
FieldValues ==
    {JStr(NodeLink(12)), BadLink,
     JNum, JBool, JNull, JObj(<<"test1">> :> JStr(<<"foo">>)), JArr(<<JNum>>)}

\* the objects: the bad link matters under "self" alone
Templates ==
    UNION {{f \in [ks -> FieldValues] :
                \A k \in ks : f[k] = BadLink => k = <<"self">>} :
              ks \in {x \in SUBSET FieldKeys : Cardinality(x) <= MaxFields}}

InitNode ==
    /\ mode = "node"
    /\ client = [c \in Clients |-> Unbuilt]
    /\ hist = [s \in Sessions |-> NoWrites]
    /\ server = NoNodes
    /\ \E template \in Templates :
          sess = [s \in Sessions |->
                    IF s = 1
                    THEN [Idle EXCEPT !.pc = "node", !.body = JObj(template)]
                    ELSE Idle]

\* node, err := this.unmarshalNode(template)
DecodeNode(s) ==
    /\ sess[s].pc = "node"
    /\ \E order \in KeyOrders(sess[s].body.m) :
          LET decoded == unmarshalNodeRange(sess[s].body.m, order, ZeroTemplate)
          IN  sess' = [sess EXCEPT ![s] =
                   [@ EXCEPT !.pc = "noded",
                             !.call = [op |-> "unmarshalNode", order |-> order],
                             !.result = [err |-> decoded.err,
                                         val |-> [t |-> "node", v |-> decoded.node]]]]
    /\ UNCHANGED <<mode, client, hist, server>>

NextNode == \E s \in Sessions : DecodeNode(s)

\* unmarshalNode applied to every object of Templates, in every order of keys
SpecNode == InitNode /\ [][NextNode]_vars

----------------------------------------------------------------------------
(* The decoder on its own: unmarshal applied to one response body *)

\* self links, each with whether its last segment is a decimal number, and
\* the number
SelfCases ==
    {[link |-> NodeLink(1), ok |-> TRUE, id |-> 1],
     [link |-> NodeLink(12), ok |-> TRUE, id |-> 12],
     [link |-> <<"7">>, ok |-> TRUE, id |-> 7],
     [link |-> ServerRoot \o <<"/", "node", "/", "x">>, ok |-> FALSE, id |-> 0],
     [link |-> NodeLink(1) \o <<"/">>, ok |-> FALSE, id |-> 0],
     [link |-> ServerRoot \o <<"/", "node", "/", "-", "1">>, ok |-> FALSE, id |-> 0]}

SelfJSON(link) == JObj(<<"self">> :> JStr(link))

\* objects with a self link
LinkedObjects == {SelfJSON(c.link) : c \in SelfCases}

\* objects with no self link, or with one that is no string
PlainObjects == {JObj(<<"data">> :> JObj(<<"test1">> :> JStr(<<"foo">>))),
                 JObj(<<"self">> :> JNum)}

\* JSON values that are no object
NonObjects == {JNull, JNum, JStr(NodeLink(1))}

Elements == LinkedObjects \cup PlainObjects \cup NonObjects

Arrays == UNION {{JArr(a) : a \in [1..n -> Elements]} : n \in 0..MaxElems}

\* the response bodies handed to the decoder
DecodeTexts == Elements \cup Arrays \cup {JEmpty, JBad}

InitDecode ==
    /\ mode = "decode"
    /\ client = [c \in Clients |-> Unbuilt]
    /\ hist = [s \in Sessions |-> NoWrites]
    /\ server = NoNodes
    /\ \E text \in DecodeTexts :
          sess = [s \in Sessions |->
                    IF s = 1 THEN [Idle EXCEPT !.pc = "decode", !.body = text] ELSE Idle]

\* template, err := this.unmarshal(body)
Decode(s) ==
    /\ sess[s].pc = "decode"
    /\ LET decoded == unmarshal(sess[s].body)
       IN  sess' = [sess EXCEPT ![s] =
                [@ EXCEPT !.pc = "decoded",
                          !.dataSet = [m |-> decoded.dataSet],
                          !.result = [err |-> decoded.err, val |-> NoValue]]]
    /\ UNCHANGED <<mode, client, hist, server>>

NextDecode == \E s \in Sessions : Decode(s)

\* the decoder applied to every body of DecodeTexts
SpecDecode == InitDecode /\ [][NextDecode]_vars

----------------------------------------------------------------------------
(* Properties *)

\* the error table of the operation a call runs
ErrorList(call) == Program(call)[Len(Program(call))].list

\* the statuses the requests of session s have been answered with
Answers(s) ==
    {sess[s].reqs[n].status : n \in 1..Len(sess[s].reqs)} \cap Statuses

\* C1: when a request of an operation fails at the transport level, or a body
\* it decodes cannot be decoded, the operation ends there: it returns that
\* failure, and it has sent no request after it.
C1_FailureReturned ==
    \A s \in Sessions :
        sess[s].fail.err # "nil" =>
            /\ sess[s].pc = "done"
            /\ sess[s].result.err = sess[s].fail.err
            /\ Len(sess[s].reqs) = sess[s].fail.at

\* C2: when a GetNode call an operation makes to resolve a node returns an
\* error, the operation ends there: it returns exactly that error, and the
\* request of the failed resolution is the last one it sent.
C2_ResolutionErrorReturned ==
    \A s \in Sessions :
        sess[s].res.err # "nil" =>
            /\ sess[s].pc = "done"
            /\ sess[s].result.err = sess[s].res.err
            /\ Len(sess[s].reqs) = sess[s].res.at

\* CreateRelationship resolved its destination, its source was not found: it
\* returned "Node not found." after two GET requests, and sent no POST
C2_SourceNotFound ==
    \E s \in Sessions :
        /\ sess[s].call.op = "CreateRelationship"
        /\ sess[s].pc = "done"
        /\ sess[s].res = [err |-> "Node not found.", at |-> 2]
        /\ sess[s].reqs[1].status = 200
        /\ sess[s].reqs[2].status = 404
        /\ \A n \in 1..Len(sess[s].reqs) : sess[s].reqs[n].verb = "GET"

\* C3: in an operation that sends one request per item, a request answered
\* with a status its table maps to an error is the last request the operation
\* sends, and the operation returns an error.
C3_LoopStopsAtErrorStatus ==
    \A s \in Sessions : \A n \in 1..Len(sess[s].reqs) :
        LET req == sess[s].reqs[n]
        IN  /\ req.item
            /\ req.out = "response"
            /\ NewError(ErrorList(sess[s].call), req.status) # "nil"
            => /\ n = Len(sess[s].reqs)
               /\ sess[s].pc = "done" => sess[s].result.err # "nil"

\* C4: with one session on one client, the status a call classifies is one
\* the client received during that call.
C4_StatusOfThisCall ==
    \A s \in Sessions :
        sess[s].cls.fn # "none" => sess[s].cls.from = "cur"

\* C5: on a client that sessions share without synchronization, a call may
\* classify a status that another session's request wrote; the status is then
\* one a request of another session was answered with, and the call returns
\* what its table gives for that status.
C5_ClassifiesOthersStatus ==
    \A s \in Sessions :
        LET c == sess[s].cls
        IN  c.from = "other" =>
                /\ \E t \in Sessions \ {s} : c.code \in hist[t].S
                /\ c.own => /\ sess[s].pc = "done"
                            /\ sess[s].result.err = NewError(ErrorList(sess[s].call), c.code)

\* GetNode was answered 200 and returned "Node not found.", the answer to the
\* DELETE of the other session
C5_OthersErrorReturned ==
    \E s \in Sessions, t \in Sessions :
        /\ s # t
        /\ sess[s].call.op = "GetNode"
        /\ sess[s].pc = "done"
        /\ Answers(s) = {200}
        /\ sess[s].cls.from = "other"
        /\ sess[s].cls.code = 404
        /\ sess[s].result.err = "Node not found."
        /\ sess[t].call.op = "DelRelationship"
        /\ 404 \in Answers(t)

\* C6: when the sessions take turns on one client, every request has the verb
\* that the call sending it has set, and every classification reads a status
\* that the same call has received.
C6_OwnVerbAndStatus ==
    \A s \in Sessions :
        /\ \A n \in 1..Len(sess[s].reqs) : sess[s].reqs[n].by = "cur"
        /\ sess[s].cls.fn # "none" => sess[s].cls.from = "cur"

\* C7: a classification of status 500 yields "Fatal Error 500.", which the
\* operation returns; chkStatusCode yields the same for every tag.
C7_FatalErrorOn500 ==
    \A s \in Sessions :
        LET c == sess[s].cls
        IN  c.fn # "none" /\ c.code = 500 =>
                /\ c.err = FatalError
                /\ sess[s].pc = "done"
                /\ sess[s].result.err = FatalError
                /\ c.chk \in {FatalError, "n/a"}

\* DelNode resolved its node and its DELETE was answered 500
C7_DelNodeFatal ==
    \E s \in Sessions :
        /\ sess[s].call.op = "DelNode"
        /\ sess[s].cls.own
        /\ sess[s].cls.code = 500
        /\ sess[s].cls.listed = FALSE
        /\ Len(sess[s].reqs) = 2
        /\ sess[s].reqs[2].status = 500
        /\ sess[s].result.err = "Fatal Error 500."

\* C8: a classification of status 200 or 201 yields no error, in NewError and
\* in chkStatusCode, and an operation that ends with it returns no error.
C8_NoErrorOn200And201 ==
    \A s \in Sessions :
        LET c == sess[s].cls
        IN  c.fn # "none" /\ c.code \in {200, 201} =>
                /\ c.err = "nil"
                /\ c.chk \in {"nil", "n/a"}
                /\ c.own => sess[s].pc = "done" /\ sess[s].result.err = "nil"

\* CreateNode was answered 201 and returned the record with no error
C8_Created ==
    \E s \in Sessions :
        /\ sess[s].call.op = "CreateNode"
        /\ sess[s].pc = "done"
        /\ sess[s].cls.own
        /\ sess[s].cls.code = 201
        /\ Answers(s) = {201}
        /\ sess[s].result.err = "nil"
        /\ sess[s].result.val.t = "record"

\* the codes chkStatusCode has a case for
Recognized == {500, 409, 404, 400, 204, 201, 200}

HasInvalidArg(call) ==
    \/ \E f \in {"id", "src", "dst"} \cap DOMAIN call : call[f] = 0
    \/ "ids" \in DOMAIN call /\ \E n \in 1..Len(call.ids) : call.ids[n] = 0
    \/ "name" \in DOMAIN call /\ Len(call.name) = 0

ValidationErrors ==
    {"Invalid node id specified.", "Property name must be at least 1 character."}

\* C11: a call that is given an identifier of zero or an empty property name
\* sends no request and writes no status code, and it returns a validation
\* error.
C11_InvalidArgumentRejected ==
    \A s \in Sessions :
        HasInvalidArg(sess[s].call) =>
            /\ Len(sess[s].reqs) = 0
            /\ client[Owner(s)].stBy # s
            /\ sess[s].pc = "done" => sess[s].result.err \in ValidationErrors

\* C12 (as the code has it): DelProperty resolves its node with a GET first.
\* When that GET is answered 404, DelProperty sends no DELETE and returns
\* "Node not found.", the error of GetNode, or the decode error when the body
\* of the answer cannot be decoded.  It returns "Node or Property not found."
\* exactly when the node was resolved and the DELETE itself is answered 404.
C12_DelPropertyNotFound ==
    \A s \in Sessions :
        LET r == sess[s]
        IN  r.call.op = "DelProperty" /\ r.pc = "done" =>
                /\ Len(r.reqs) >= 1 /\ r.reqs[1].status = 404 =>
                      /\ Len(r.reqs) = 1
                      /\ r.reqs[1].verb = "GET"
                      /\ r.fail.err = "nil" => r.result.err = "Node not found."
                      /\ r.fail.err # "nil" => r.result.err = r.fail.err
                /\ r.result.err = "Node or Property not found." <=>
                      /\ Len(r.reqs) = 2
                      /\ r.reqs[2].verb = "DELETE"
                      /\ r.reqs[2].status = 404

\* DelProperty had its GET answered 404 with a body that decodes: it returned
\* "Node not found." and sent nothing else
C12_NodeNotFound ==
    \E s \in Sessions :
        /\ sess[s].call.op = "DelProperty"
        /\ sess[s].pc = "done"
        /\ Len(sess[s].reqs) = 1
        /\ sess[s].reqs[1].status = 404
        /\ sess[s].fail.err = "nil"
        /\ sess[s].result.err = "Node not found."

\* C12 (as stated): DelProperty whose first request, the one that addresses
\* the node, is answered 404 with a body that decodes returns "Node or
\* Property not found.".
C12_NodeOrPropertyNotFound ==
    \A s \in Sessions :
        /\ sess[s].call.op = "DelProperty"
        /\ sess[s].pc = "done"
        /\ Len(sess[s].reqs) >= 1
        /\ sess[s].reqs[1].status = 404
        /\ sess[s].fail.err = "nil"
        => sess[s].result.err = "Node or Property not found."

\* the properties P with those of the data map D written over them
Overridden(P, D) ==
    [key \in DOMAIN P \cup DOMAIN D |-> IF key \in DOMAIN D THEN JStr(D[key]) ELSE P[key]]

\* C13: when SetProperty or CreateProperty with replace = false returned no
\* error for the data D (keys without blanks around them) on a node with the
\* properties P, a GetProperties call that follows it and returns no error
\* returns P with D written over it.
C13_MergeThenGetProperties ==
    \A s \in Sessions :
        LET r == sess[s]
            p == sess[s].prev
        IN  /\ r.call.op = "GetProperties"
            /\ r.pc = "done"
            /\ r.result.err = "nil"
            /\ p.call.op \in {"SetProperty", "CreateProperty"}
            /\ ~p.call.replace
            /\ p.call.id = r.call.id
            /\ \A key \in DOMAIN p.call.data : TrimSpace(key) = key
            => r.result.val.v.Data = JObj(Overridden(p.before[r.call.id], p.call.data))

\* the keys a request of a property update writes: the keys of the object it
\* carries to the properties link, or the one key its URL names behind it
KeysWritten(req, link) ==
    IF req.url = link THEN DOMAIN req.data.m
    ELSE {SubSeq(req.url, Len(link) + 2, Len(req.url))}

\* C14: a SetProperty or CreateProperty call that resolved its node and met no
\* failure has sent, after the GET, with replace = true one PUT of the whole
\* data map to the properties link, and with replace = false one PUT per key
\* of the data map to the properties link followed by "/" and the key, with
\* the key's value; in both modes the keys written are the keys of the map.
C14_UpdateRequests ==
    \A s \in Sessions :
        LET r == sess[s]
            D == r.call.data
            link == r.node["node"].Properties
            puts == SubSeq(r.reqs, 2, Len(r.reqs))
        IN  /\ r.call.op \in {"SetProperty", "CreateProperty"}
            /\ r.pc = "done"
            /\ r.res.err = "nil"
            /\ r.fail.err = "nil"
            => /\ \A n \in 1..Len(puts) : puts[n].verb = "PUT"
               /\ r.call.replace =>
                     /\ Len(puts) = 1
                     /\ puts[1].url = link
                     /\ puts[1].data = Marshal(D)
               /\ ~r.call.replace =>
                     /\ Len(puts) = Cardinality(DOMAIN D)
                     /\ \A n \in 1..Len(puts) :
                           /\ puts[n].url = link \o <<"/">> \o r.call.order[n]
                           /\ puts[n].data = Quote(D[r.call.order[n]])
               /\ UNION {KeysWritten(puts[n], link) : n \in 1..Len(puts)} = DOMAIN D

\* C15: when CreateNode with the property map P returned a record and no
\* error, and the GetNode call that follows it on the identifier of that
\* record has its GET answered by the server, GetNode returns no error and a
\* record with that identifier whose Data holds exactly the keys of P, each
\* with its value of P.
C15_CreateThenGetNode ==
    \A s \in Sessions :
        LET r == sess[s]
            p == sess[s].prev
        IN  /\ p.call.op = "CreateNode"
            /\ r.call.op = "GetNode"
            /\ r.call.id = p.id
            /\ r.pc = "done"
            /\ Len(r.reqs) = 1
            /\ r.reqs[1].out = "response"
            /\ r.reqs[1].status # 500
            => /\ r.reqs[1].status = 200
               /\ r.result.err = "nil"
               /\ r.result.val.v.ID = p.id
               /\ r.result.val.v.Data = JObj(StrMap(p.call.data))
               /\ \A key \in DOMAIN p.call.data :
                     r.result.val.v.Data.m[key] = [k |-> "str", s |-> p.call.data[key]]

\* GetNode on the identifier CreateNode returned has read the node back
C15_CreatedNodeRead ==
    \E s \in Sessions :
        /\ sess[s].prev.call.op = "CreateNode"
        /\ sess[s].prev.id = 2
        /\ sess[s].call = [op |-> "GetNode", id |-> 2]
        /\ sess[s].pc = "done"
        /\ sess[s].result.err = "nil"
        /\ sess[s].result.val.v.ID = 2
        /\ DOMAIN sess[s].result.val.v.Data.m = {<<"test1">>, <<" ", "test4">>}

\* the objects of the decoder's bodies whose self link, when they have one as
\* a string, ends in a decimal number
GoodObjects == {SelfJSON(c.link) : c \in {x \in SelfCases : x.ok}} \cup PlainObjects

\* C16: decoding a body that is one JSON object yields a map with exactly one
\* entry, at 0, the record of the object; decoding a body that is an array of
\* N objects (N >= 0) yields a map with the keys 0..N-1 whose entry i is the
\* record of the element at place i, counted from 0.  (The objects are those
\* whose self link, if any, ends in a number.)
C16_ObjectAndArray ==
    \A s \in Sessions :
        LET text == sess[s].body
            m == sess[s].dataSet.m
        IN  sess[s].pc = "decoded" =>
              /\ text \in GoodObjects =>
                    /\ sess[s].result.err = "nil"
                    /\ DOMAIN m = {0}
                    /\ m[0] = unmarshalNode(text.m).node
                    /\ m[0].Self = StrField(text.m, <<"self">>)
              /\ text.k = "obj" /\ sess[s].result.err = "nil" => DOMAIN m = {0}
              /\ text.k = "arr" /\ (\A i \in 1..Len(text.a) : text.a[i] \in GoodObjects) =>
                    /\ sess[s].result.err = "nil"
                    /\ DOMAIN m = 0..(Len(text.a) - 1)
                    /\ \A i \in 0..(Len(text.a) - 1) :
                          /\ m[i] = unmarshalNode(text.a[i + 1].m).node
                          /\ m[i].Self = StrField(text.a[i + 1].m, <<"self">>)

\* an array of two objects was decoded into the entries 0 and 1, in the order
\* of the array
C16_TwoDecoded ==
    \E s \in Sessions :
        /\ sess[s].pc = "decoded"
        /\ sess[s].body = JArr(<<SelfJSON(NodeLink(12)), SelfJSON(NodeLink(1))>>)
        /\ sess[s].result.err = "nil"
        /\ DOMAIN sess[s].dataSet.m = {0, 1}
        /\ sess[s].dataSet.m[0].ID = 12
        /\ sess[s].dataSet.m[1].ID = 1

\* what is known of the self link of an object of LinkedObjects
CaseOf(obj) == CHOOSE c \in SelfCases : c.link = obj.m[<<"self">>].s

\* C17: the record of a decoded object with a string under "self" has the
\* number of the last "/"-segment of that string as its ID and the string as
\* its Self.  When the segment is no decimal number (not numeric, empty after
\* a trailing "/", or negative), the decode fails and yields no map, also when
\* the object is an element of an array, whatever the other elements are.
C17_IdFromSelf ==
    \A s \in Sessions :
        LET text == sess[s].body
            m == sess[s].dataSet.m
            err == sess[s].result.err
        IN  sess[s].pc = "decoded" =>
              /\ text \in LinkedObjects =>
                    IF CaseOf(text).ok
                    THEN /\ err = "nil"
                         /\ m[0].ID = CaseOf(text).id
                         /\ m[0].Self = CaseOf(text).link
                    ELSE err # "nil" /\ DOMAIN m = {}
              /\ text.k = "arr" =>
                    /\ (\E i \in 1..Len(text.a) :
                            text.a[i] \in LinkedObjects /\ ~CaseOf(text.a[i]).ok)
                       => err # "nil" /\ DOMAIN m = {}
                    /\ err = "nil" =>
                          \A i \in 1..Len(text.a) :
                              text.a[i] \in LinkedObjects =>
                                  /\ m[i - 1].ID = CaseOf(text.a[i]).id
                                  /\ m[i - 1].Self = CaseOf(text.a[i]).link

\* an array of a valid object and one whose self link ends in "/" was handed
\* to the decoder: the decode failed and yielded no map
C17_ArrayRejected ==
    \E s \in Sessions :
        /\ sess[s].pc = "decoded"
        /\ sess[s].body = JArr(<<SelfJSON(NodeLink(1)), SelfJSON(NodeLink(1) \o <<"/">>)>>)
        /\ sess[s].result.err = "strconv.ParseUint: invalid syntax"
        /\ DOMAIN sess[s].dataSet.m = {}

\* whether a JSON value is an object whose self link does not end in a number
BadSelf(v) == v \in LinkedObjects /\ ~CaseOf(v).ok

\* C18 (as the code has it): the decoder returns an error, and then no map,
\* exactly when the body is not a JSON object, null, or an array of objects
\* and nulls, or when the self link of one of the objects does not end in a
\* number.  The body null is decoded into one record with every field at its
\* zero value, and so is a null in an array.
C18_DecodeError ==
    \A s \in Sessions :
        LET text == sess[s].body
            m == sess[s].dataSet.m
            err == sess[s].result.err
            Accepted ==
                \/ text.k \in {"obj", "null"} /\ ~BadSelf(text)
                \/ /\ text.k = "arr"
                   /\ \A i \in 1..Len(text.a) :
                         text.a[i].k \in {"obj", "null"} /\ ~BadSelf(text.a[i])
        IN  sess[s].pc = "decoded" =>
              /\ err = "nil" <=> Accepted
              /\ err # "nil" => DOMAIN m = {}
              /\ text.k = "null" => DOMAIN m = {0} /\ m[0] = ZeroTemplate
              /\ err = "nil" /\ text.k = "arr" =>
                    /\ DOMAIN m = 0..(Len(text.a) - 1)
                    /\ \A i \in 1..Len(text.a) :
                          text.a[i].k = "null" => m[i - 1] = ZeroTemplate

\* the body null was decoded into one record, with no error
C18_NullAccepted ==
    \E s \in Sessions :
        /\ sess[s].pc = "decoded"
        /\ sess[s].body = JNull
        /\ sess[s].result.err = "nil"
        /\ DOMAIN sess[s].dataSet.m = {0}
        /\ sess[s].dataSet.m[0].ID = 0

\* C18 (as stated): the decoder returns an error exactly when the body is
\* neither a JSON object nor an array of JSON objects, or when the self link
\* of one of the objects does not end in a number; null is rejected.
C18_OnlyObjectsAccepted ==
    \A s \in Sessions :
        LET text == sess[s].body
        IN  sess[s].pc = "decoded" =>
              (sess[s].result.err = "nil" <=>
                  \/ text.k = "obj" /\ ~BadSelf(text)
                  \/ /\ text.k = "arr"
                     /\ \A i \in 1..Len(text.a) :
                           text.a[i].k = "obj" /\ ~BadSelf(text.a[i]))

\* the return types a traversal may ask the server for
Allowed == {"node", "relationship", "path", "fullpath"}

\* C19: the POST of Traverse goes to the traverse template of the resolved
\* node with {returnType} replaced by the lowered returnType argument when
\* that is one of node, relationship, path, fullpath, and by node otherwise;
\* the URL ends in one of these four and holds no placeholder.
C19_TraverseReturnType ==
    \A s \in Sessions :
        LET r == sess[s]
            lowered == ToLower(r.call.returnType)
            url == r.reqs[2].url
        IN  r.call.op = "Traverse" /\ Len(r.reqs) >= 2 =>
              /\ r.reqs[2].verb = "POST"
              /\ url = ReplaceFirst(r.node["node"].Traverse, "{returnType}",
                                    IF lowered \in Allowed THEN lowered ELSE "node")
              /\ url = NodeLink(1) \o <<"/", "traverse", "/">>
                       \o <<IF lowered \in Allowed THEN lowered ELSE "node">>
              /\ url[Len(url)] \in Allowed
              /\ \A i \in 1..Len(url) : url[i] # "{returnType}"
              /\ Len(r.reqs) = 2

\* Traverse was called with the return type "nodes": its POST went to
\* .../traverse/node
C19_Normalized ==
    \E s \in Sessions :
        /\ sess[s].call.op = "Traverse"
        /\ sess[s].call.returnType = "nodes"
        /\ Len(sess[s].reqs) = 2
        /\ sess[s].reqs[2].verb = "POST"
        /\ sess[s].reqs[2].url = <<"srv", "/", "node", "/", "1", "/", "traverse", "/", "node">>

\* C20: SearchIdx sends one GET, to {base}/index/{kind}/{cat} followed, when
\* the query is not empty, by ?query= and the escaped query, whatever key and
\* value are, and else by /{key without blanks around it}/{escaped value};
\* kind is relationship exactly when idxType is "relationship" in any case of
\* letters, and node otherwise.
C20_SearchRequest ==
    \A s \in Sessions :
        LET r == sess[s]
            c == sess[s].call
            kind == IF c.idxType \in {"relationship", "Relationship", "RELATIONSHIP"}
                    THEN "relationship" ELSE "node"
            start == client[Owner(s)].URL \o <<"/", "index", "/", kind, "/">> \o c.cat
            url == r.reqs[1].url
        IN  c.op = "SearchIdx" /\ Len(r.reqs) >= 1 =>
              /\ Len(r.reqs) = 1
              /\ r.reqs[1].verb = "GET"
              /\ r.reqs[1].data = NoBody
              /\ Len(c.query) > 0 =>
                    /\ url = start \o <<"?query=">> \o EscapeString(c.query)
                    /\ c.query = <<"a_test", ":", "testing", "*">> =>
                          url = start \o <<"?query=", "a_test", "%", "3", "A",
                                            "testing", "%", "2", "A">>
              /\ Len(c.query) = 0 =>
                    /\ url = start \o <<"/">> \o TrimSpace(c.key) \o <<"/">>
                                   \o EscapeString(c.value)
                    /\ c.value = <<"testing", " ", "1">> =>
                          url = start \o <<"/", "a_test", "/", "testing", "%", "2", "0", "1">>

\* SearchIdx was called with a query, a key with blanks around it and the
\* index type "Relationship": its GET went to the relationship index with the
\* escaped query, and holds neither the key nor the value
C20_QuerySent ==
    \E s \in Sessions :
        /\ sess[s].call.op = "SearchIdx"
        /\ sess[s].call.idxType = "Relationship"
        /\ sess[s].call.key = <<" ", "a_test", " ">>
        /\ Len(sess[s].call.query) > 0
        /\ Len(sess[s].reqs) = 1
        /\ sess[s].reqs[1].verb = "GET"
        /\ sess[s].reqs[1].url =
              <<"http://127.0.0.1:7474/db/data", "/", "index", "/", "relationship", "/",
                "idx_type", "?query=", "a_test", "%", "3", "A", "testing", "%", "2", "A">>

Requests(call) ==
    CASE call.op \in {"GetNode", "CreateNode", "SearchIdx", "SetRelationship"} -> 1
      [] call.op = "DelRelationship" -> Len(call.ids)
      [] call.op \in {"SetProperty", "CreateProperty"} ->
            IF call.replace THEN 2 ELSE 1 + Cardinality(DOMAIN call.data)
      [] call.op \in {"CreateRelationship", "TraversePath"} -> 3
      [] OTHER -> 2

\* C22 (as the code has it): a call that runs to its last classification has
\* sent one request when it is GetNode, CreateNode, SearchIdx or
\* SetRelationship, N requests when it is DelRelationship with N ids, three
\* when it resolves two nodes, one more than the keys of its data map when it
\* is a merge update, and two otherwise: one GET per node it resolves, and
\* then its own.  No call sends more.  The requests go one after the other:
\* a request is sent only when every earlier one has its outcome, and the
\* call returns only when every request has.
C22_RequestsOfACall ==
    \A s \in Sessions :
        LET r == sess[s]
        IN  r.call.op # "none" =>
              /\ Len(r.reqs) <= Requests(r.call)
              /\ r.pc = "done" /\ r.cls.own => Len(r.reqs) = Requests(r.call)
              /\ \A n \in 1..Len(r.reqs) :
                    r.reqs[n].out = "pending" => n = Len(r.reqs) /\ r.pc = "wait"
              /\ r.pc = "wait" => r.reqs[Len(r.reqs)].out = "pending"

\* CreateRelationship ran to its end with three requests, each one answered:
\* two GETs and the POST
C22_ThreeRequests ==
    \E s \in Sessions :
        /\ sess[s].call.op = "CreateRelationship"
        /\ sess[s].pc = "done"
        /\ sess[s].cls.own
        /\ Len(sess[s].reqs) = 3
        /\ \A n \in 1..3 : sess[s].reqs[n].out = "response"
        /\ sess[s].reqs[1].verb = "GET"
        /\ sess[s].reqs[2].verb = "GET"
        /\ sess[s].reqs[3].verb = "POST"

\* C22 (as stated): a call that runs to its end has sent exactly one request,
\* or N requests when it is DelRelationship with N ids.
C22_OneRequest ==
    \A s \in Sessions :
        sess[s].pc = "done" /\ sess[s].cls.own =>
            Len(sess[s].reqs) = IF sess[s].call.op = "DelRelationship"
                                THEN Len(sess[s].call.ids) ELSE 1

\* the escape the claim gives for a character, the character itself when it
\* is not reserved
MappedChar(c) ==
    CASE c = "&" -> <<"&", "amp", ";">>
      [] c = "'" -> <<"&", "apos", ";">>
      [] c = "<" -> <<"&", "lt", ";">>
      [] c = ">" -> <<"&", "gt", ";">>
      [] c = "\"" -> <<"&", "quot", ";">>
      [] c = " " -> <<"%", "2", "0">>
      [] c = "*" -> <<"%", "2", "A">>
      [] c = ":" -> <<"%", "3", "A">>
      [] c = "[" -> <<"%", "5", "B">>
      [] c = "]" -> <<"%", "5", "D">>
      [] c = "%" -> <<"%", "2", "5">>
      [] OTHER -> <<c>>

RECURSIVE Mapped(_)
Mapped(s) == IF s = <<>> THEN <<>> ELSE MappedChar(s[1]) \o Mapped(Tail(s))

\* C23: EscapeString(s) is the concatenation, in order over the characters of
\* s, of the escape of every reserved character and of every other character
\* itself; a string with no reserved character is returned as it is; every
\* reserved character has an escape, so the panic of the switch is never
\* reached.
C23_EscapedPerCharacter ==
    \A s \in Sessions :
        LET str == sess[s].call.s
            out == sess[s].result.val.v
        IN  sess[s].pc = "escaped" =>
              /\ out = Mapped(str)
              /\ (\A i \in 1..Len(str) : str[i] \notin escapedChars) => out = str
              /\ \A i \in 1..Len(out) : out[i] # "panic: unrecognized escape character"
              /\ \A c \in escapedChars :
                    EscapeOf(c) # <<"panic: unrecognized escape character">>
              /\ Cardinality(escapedChars) = 11

\* the string of a percent sign and a blank was escaped to %25%20
C23_TwoEscaped ==
    \E s \in Sessions :
        /\ sess[s].pc = "escaped"
        /\ sess[s].call.s = <<"%", " ">>
        /\ sess[s].result.val.v = <<"%", "2", "5", "%", "2", "0">>

\* the routing the claim gives: key, kind of value, field of the record
Routing ==
    {[key |-> e[1], kind |-> "str", field |-> e[2]] : e \in StringKeys}
        \cup {[key |-> <<"self">>, kind |-> "str", field |-> "Self"],
              [key |-> <<"data">>, kind |-> "obj", field |-> "Data"],
              [key |-> <<"extensions">>, kind |-> "obj", field |-> "Extensions"],
              [key |-> <<"nodes">>, kind |-> "arr", field |-> "Nodes"],
              [key |-> <<"relationships">>, kind |-> "arr", field |-> "TRelationships"]}

\* the pair of key and value matches the route
Routed(template, route) ==
    route.key \in DOMAIN template /\ template[route.key].k = route.kind

\* C24: unmarshalNode sets a field of the record only from a key whose name and
\* kind of value both match the routing (objects for data and extensions,
\* arrays for nodes and relationships, strings for self and the twelve link
\* and relationship keys); every other pair (a number, a boolean, null, an
\* unknown key, a known key holding another kind) leaves every field at its
\* zero value and causes no error; the record is the same in whichever order
\* the keys are visited.
C24_RoutedByKeyAndKind ==
    \A s \in Sessions :
        LET template == sess[s].body.m
            node == sess[s].result.val.v
            badSelf == /\ Routed(template, [key |-> <<"self">>, kind |-> "str"])
                       /\ BadSelf(SelfJSON(template[<<"self">>].s))
        IN  sess[s].pc = "noded" =>
              /\ sess[s].result.err # "nil" <=> badSelf
              /\ badSelf => node = Nil
              /\ ~badSelf =>
                    /\ \A route \in Routing :
                          node[route.field] =
                              IF Routed(template, route)
                              THEN IF route.kind = "str"
                                   THEN template[route.key].s
                                   ELSE template[route.key]
                              ELSE ZeroTemplate[route.field]
                    /\ node.ID # 0 => Routed(template, [key |-> <<"self">>, kind |-> "str"])
                    /\ (\A route \in Routing : ~Routed(template, route))
                          => node = ZeroTemplate
              /\ [err |-> sess[s].result.err, node |-> node] = unmarshalNode(template)

\* an object with a number under "data" and a string under "type" was decoded
\* with "type" visited first: Type is set, Data is nil, there is no error
C24_NumberUnderData ==
    \E s \in Sessions :
        /\ sess[s].pc = "noded"
        /\ sess[s].call.order = << <<"type">>, <<"data">> >>
        /\ sess[s].body.m[<<"data">>] = JNum
        /\ sess[s].body.m[<<"type">>].k = "str"
        /\ sess[s].result.err = "nil"
        /\ sess[s].result.val.v.Data = Nil
        /\ sess[s].result.val.v.Type # <<>>

\* the spellings of a verb in lower, upper and mixed case
Spelled(word) ==
    CASE word = "delete" -> {"delete", "DELETE", "Delete"}
      [] word = "post" -> {"post", "POST", "Post"}
      [] word = "put" -> {"put", "PUT", "Put"}

\* C25: send chooses the verb from Method without regard to case: delete
\* gives DELETE with no body; post gives POST with the data as body and the
\* content type application/json; put gives PUT with the data as body and
\* application/json; get and every other value, the empty one included, give
\* GET with no body.
C25_VerbFromMethod ==
    \A s \in Sessions :
        sess[s].pc \in {"wait", "sent"} /\ sess[s].call.op = "send" =>
            LET req == sess[s].reqs[1]
                Method == sess[s].call.Method
                plain == req.data = NoBody /\ req.ctype = ""
                json == req.data = sess[s].call.data /\ req.ctype = "application/json"
            IN  /\ Len(sess[s].reqs) = 1
                /\ Method \in Spelled("delete") => req.verb = "DELETE" /\ plain
                /\ Method \in Spelled("post") => req.verb = "POST" /\ json
                /\ Method \in Spelled("put") => req.verb = "PUT" /\ json
                /\ Method \notin Spelled("delete") \cup Spelled("post") \cup Spelled("put")
                      => req.verb = "GET" /\ plain

\* a client whose Method is "Delete" sent a DELETE request
C25_MixedCase ==
    \E s \in Sessions :
        /\ sess[s].pc = "wait"
        /\ sess[s].call.op = "send"
        /\ sess[s].call.Method = "Delete"
        /\ sess[s].reqs[1].verb = "DELETE"

\* C26: when send returns no error, StatusCode is the status of the response
\* just received and the text returned is its body; when send returns an
\* error (the request was not made or not answered, or the body could not be
\* read), StatusCode keeps the value it had and the text is empty; send never
\* changes Method or URL.
C26_StatusOnSuccessOnly ==
    \A s \in Sessions :
        sess[s].pc = "sent" =>
            LET out == sess[s].reqs[1].out
                c == client[Owner(s)]
            IN  /\ sess[s].result.err = "nil" <=> out.t = "response"
                /\ out.t = "response" =>
                      /\ c.StatusCode = out.status
                      /\ sess[s].result.val.v = out.body
                /\ out.t # "response" =>
                      /\ c.StatusCode = sess[s].call.StatusCode
                      /\ sess[s].result.val.v = JEmpty
                /\ c.Method = sess[s].call.Method
                /\ c.URL = DefaultURL

\* a send on a client whose StatusCode was 404 failed to read the body, and
\* StatusCode is still 404
C26_StatusKept ==
    \E s \in Sessions :
        /\ sess[s].pc = "sent"
        /\ sess[s].result.err = "read"
        /\ sess[s].call.StatusCode = 404
        /\ client[Owner(s)].StatusCode = 404

\* the verb of the requests an operation sends for itself
OwnVerb(op) ==
    CASE op \in {"GetNode", "GetProperty", "GetProperties",
                 "GetRelationshipsOnNode", "SearchIdx"} -> "GET"
      [] op \in {"CreateNode", "CreateRelationship", "CreateIdx",
                 "Traverse", "TraversePath"} -> "POST"
      [] op \in {"SetProperty", "CreateProperty", "SetRelationship"} -> "PUT"
      [] op \in {"DelNode", "DelProperty", "DelRelationship"} -> "DELETE"

\* the number of requests with which an operation first resolves its nodes
Resolutions(op) ==
    CASE op \in {"CreateRelationship", "TraversePath"} -> 2
      [] op \in {"GetNode", "CreateNode", "SearchIdx", "SetRelationship",
                 "DelRelationship"} -> 0
      [] OTHER -> 1

\* C27: while one client is used by one call after the other, every request
\* goes out with the verb of the step that issues it: GET for each node
\* resolution and for the reading operations, POST for the creating and
\* traversing ones, PUT for the updating ones, DELETE for the deleting ones;
\* the verb is always one the running call has set itself, never one left by
\* an earlier call or by the node resolution.
C27_VerbOfTheStep ==
    \A s \in Sessions :
        LET r == sess[s]
        IN  r.call.op # "none" =>
              \A n \in 1..Len(r.reqs) :
                  /\ r.reqs[n].verb = IF n <= Resolutions(r.call.op) THEN "GET"
                                      ELSE OwnVerb(r.call.op)
                  /\ r.reqs[n].by = "cur"

\* a DelNode has resolved its node with GET and sent its own request with
\* DELETE
C27_GetThenDelete ==
    \E s \in Sessions :
        /\ sess[s].call.op = "DelNode"
        /\ sess[s].pc = "done"
        /\ Len(sess[s].reqs) = 2
        /\ sess[s].reqs[1].verb = "GET"
        /\ sess[s].reqs[2].verb = "DELETE"

\* C28: on a client that sessions share without synchronization, a request
\* may go out with the verb that another session has set; the verb is then
\* one that a call of another session wrote to Method, and the request still
\* goes to the url of its own call.  So the request of a GetNode to
\* /node/{id} can go out as DELETE while a deleting call runs on the client.
C28_SentWithOthersVerb ==
    \A s \in Sessions :
        \A n \in 1..Len(sess[s].reqs) :
            LET req == sess[s].reqs[n]
            IN  req.by = "other" =>
                  /\ \E t \in Sessions \ {s} :
                        \E m \in hist[t].M : req.verb = Verb(m)
                  /\ req.data = NoBody
                  /\ sess[s].call.op = "GetNode" =>
                        req.url = NodeURL(sess[s].call.id)

\* the request of GetNode(1) to /node/1 is out as DELETE while the
\* DelRelationship of the other session has set its verb and not yet returned
C28_ReadSentAsDelete ==
    \E s \in Sessions, t \in Sessions :
        /\ s # t
        /\ sess[s].call.op = "GetNode"
        /\ sess[s].pc = "wait"
        /\ sess[s].reqs[1].verb = "DELETE"
        /\ sess[s].reqs[1].by = "other"
        /\ sess[s].reqs[1].url = NodeURL(1)
        /\ sess[t].call.op = "DelRelationship"
        /\ sess[t].pc \in {"run", "wait"}

\* C29: a GetProperties whose properties request is answered 204 with an empty
\* body returns the error "No properties found.".
C29_NoPropertiesFound ==
    [][\A s \in Sessions :
          /\ sess[s].call.op = "GetProperties"
          /\ sess[s].pc = "run"
          /\ Len(sess[s].reqs) = 2
          /\ sess[s].reqs[2].status = 204
          /\ Instr(s).i = "unmarshal"
          /\ sess[s].body = JEmpty
          /\ sess'[s].pc = "done"
          => sess'[s].result.err = "No properties found."]_vars

\* C30: whenever GetNode, CreateNode or GetProperties returns a nil error, the
\* record it returns is not nil, whatever the body of the response (an empty
\* JSON array included); so no operation that resolves a node and then reads
\* a field of the record dereferences a nil pointer.
C30_RecordNotNil ==
    /\ \A s \in Sessions :
          /\ sess[s].pc = "done"
          /\ sess[s].call.op \in {"GetNode", "CreateNode", "GetProperties"}
          /\ sess[s].result.err = "nil"
          => sess[s].result.val.v # Nil
    /\ ~Crashed

============================================================================
